---- MODULE Spec2Model ----
(***************************************************************************)
(* Verification model of finddeck: the chunked capture loops of the two    *)
(* Puppeteer pipelines (processBizinfoPage, processKStartupPage), the      *)
(* condition matcher (matchCompanyAge, matchRegion, matchAge,              *)
(* matchIndustry), the /api/match query built on it, the model extractors, *)
(* the /api/crawl endpoint and the result fetching of the search page.     *)
(*                                                                         *)
(* Strings are sequences of characters.  A Hangul syllable is one          *)
(* character, written "H_" followed by its romanisation ("H_nyeon" is 년); *)
(* ASCII characters are written as themselves.                             *)
(***************************************************************************)
EXTENDS Integers, Sequences, FiniteSets, TLC

VARIABLES
    site,            \* capture: which pipeline runs ("none" before it starts)
    cpc,             \* capture: position in the pipeline
    bodyHeight,      \* capture: raw content height (bodyHeight / scrollHeight)
    finalHeight,     \* capture: finalHeight (Bizinfo) / limitHeight (K-Startup)
    capturedHeight,  \* capture: capturedHeight (Bizinfo) / currentScroll (K-Startup)
    screenshots      \* capture: the screenshots array, one record per chunk

captureVars == <<site, cpc, bodyHeight, finalHeight, capturedHeight, screenshots>>

VARIABLES
    rule,            \* matcher: the rule function under call ("none" when idle)
    condition,       \* matcher: the stored condition string passed to it
    userValue,       \* matcher: years / age (a number) or region / industry (a string)
    ruleResult       \* matcher: "pending", "true", "false" or "throws"

ruleVars == <<rule, condition, userValue, ruleResult>>

VARIABLES
    db,              \* match: the SupportProgram rows, by row number
    request,         \* match: the query parameters and the time of the request
    programs,        \* match: the rows findMany returned, in its order
    response         \* match: the JSON response ("none" before the request)

matchVars == <<db, request, programs, response>>

VARIABLES
    page,            \* pipeline: the announcement page ("none", "open", "closed")
    viewerPage,      \* pipeline: the viewer window of K-Startup ("none", "open", "closed")
    elapsed,         \* pipeline: Date.now() - startTime of the viewer scan, in ms
    dom,             \* pipeline: which of '.view_cont' and 'body' the loaded page has
    frames,          \* pipeline: the URLs of page.frames() at the latest poll
    viewerFrame,     \* pipeline: position in frames of the frame found (0: none)
    returnValue,     \* pipeline: the value of the return statement reached, if any
    outcome,         \* pipeline: "running", "returned" or "raised"
    readiness,       \* pipeline: how the readiness wait of the viewer frame ended
    attachments,     \* pipeline: the items of the attachment list of the K-Startup page
    viewButtonSelector, \* pipeline: <<index>> once the button index is evaluated
    clicked          \* pipeline: the indexes of the view buttons clicked, in order

\* what the stages between navigation and capture record
stageVars == <<readiness, attachments, viewButtonSelector, clicked>>

pipeVars == <<page, viewerPage, dom, elapsed, frames, viewerFrame, returnValue, outcome,
              stageVars>>

VARIABLES
    apiKey,          \* extractor: process.env.GEMINI_API_KEY is set
    extractor,       \* extractor: "none", "image" (extractTargetFromImage) or "text"
    epc,             \* extractor: position in the function
    llmInput,        \* extractor: the arguments of the call
    llmRequest,      \* extractor: the parts of the generateContent request sent
    modelCalls,      \* extractor: number of generateContent calls made
    llmReply,        \* extractor: how the generateContent call ended
    extractResult    \* extractor: the value returned to the caller

extractVars == <<apiKey, extractor, epc, llmInput, llmRequest, modelCalls, llmReply,
                 extractResult>>

VARIABLES
    rpc,             \* crawl: position in GET /api/crawl
    crawlParams,     \* crawl: source and usePuppeteer as parsed from the query
    browser,         \* crawl: the shared browser ("undefined", "open", "closed")
    closeCalls,      \* crawl: number of browser.close() calls
    crawlLog,        \* crawl: the source crawls started, each with the browser it was given
    results,         \* crawl: the results object, one entry per source crawled
    crawlError,      \* crawl: the message of the error on its way to the catch
    crawlResponse    \* crawl: the JSON response

crawlVars == <<rpc, crawlParams, browser, closeCalls, crawlLog, results, crawlError,
              crawlResponse>>

VARIABLES
    formRegion,      \* search page: the `region` state of the form
    debounceTimer,   \* search page: <<region>> of the pending updateUrlParams timer, or <<>>
    searchParams,    \* search page: the region parameter of the URL (<<>> when absent)
    fetches,         \* search page: the fetchResults calls, each with its parameters and state
    searchResults,   \* search page: the `results` state, the list displayed
    loading          \* search page: the `loading` state

searchVars == <<formRegion, debounceTimer, searchParams, fetches, searchResults, loading>>

vars == <<captureVars, ruleVars, matchVars, pipeVars, extractVars, crawlVars, searchVars>>

nonCaptureVars == <<ruleVars, matchVars, pipeVars, extractVars, crawlVars, searchVars>>
nonRuleVars == <<captureVars, matchVars, pipeVars, extractVars, crawlVars, searchVars>>
nonMatchVars == <<captureVars, ruleVars, pipeVars, extractVars, crawlVars, searchVars>>
nonExtractVars == <<captureVars, ruleVars, matchVars, pipeVars, crawlVars, searchVars>>
nonCrawlVars == <<captureVars, ruleVars, matchVars, pipeVars, extractVars, searchVars>>
\* the state neither a page pipeline nor the extractor it calls touches
nonPipelineVars == <<ruleVars, matchVars, crawlVars, searchVars>>
nonSearchVars == <<captureVars, ruleVars, matchVars, pipeVars, extractVars, crawlVars>>

\* SQL NULL in a TEXT column, and a query parameter that is absent
Null == <<"NULL">>
\* SQL NULL in the applicationEnd column
NullDate == -1

\* the match endpoint before a request
NoRequest == [now |-> 0, foundingYear |-> Null, region |-> Null,
              birthMonth |-> Null, industry |-> Null]
NoResponse == [status |-> 0, data |-> <<>>]

MatchIdle ==
    /\ db = <<>>
    /\ request = NoRequest
    /\ programs = <<>>
    /\ response = NoResponse

\* JavaScript values: a type tag, the characters of a string, the value of a number
Undefined == [t |-> "undefined", s |-> <<>>, n |-> 0]
JsNull == [t |-> "null", s |-> <<>>, n |-> 0]
Str(chars) == [t |-> "string", s |-> chars, n |-> 0]
Num(k) == [t |-> "number", s |-> <<>>, n |-> k]
Bool(b) == [t |-> "boolean", s |-> <<>>, n |-> IF b THEN 1 ELSE 0]

\* an ApplicationTarget none of whose fields is set
NoTarget == [companyAge |-> Undefined, targetRegion |-> Undefined, targetAge |-> Undefined,
             targetIndustry |-> Undefined, supportField |-> Undefined, aiSummary |-> Undefined,
             targetDetail |-> Undefined, exclusionDetail |-> Undefined]

\* what an extractor or a page pipeline hands back: nothing yet, null, or an
\* ApplicationTarget
Pending == [kind |-> "pending", target |-> NoTarget]
ReturnsNull == [kind |-> "null", target |-> NoTarget]
ReturnsTarget(target) == [kind |-> "target", target |-> target]

\* the readiness wait has not run
NoReadiness == [content |-> [images |-> <<>>, textLength |-> 0], result |-> "none"]

\* the page pipeline before processBizinfoPage / processKStartupPage is called
PipeIdle ==
    /\ page = "none"
    /\ viewerPage = "none"
    /\ dom = {}
    /\ elapsed = 0
    /\ frames = <<>>
    /\ viewerFrame = 0
    /\ returnValue = Pending
    /\ outcome = "running"
    /\ readiness = NoReadiness
    /\ attachments = <<>>
    /\ viewButtonSelector = <<>>
    /\ clicked = <<>>

NoReply == [kind |-> "none", text |-> <<>>]

\* the extractor before a call
ExtractIdle ==
    /\ apiKey = TRUE
    /\ extractor = "none"
    /\ epc = "idle"
    /\ llmInput = <<>>
    /\ llmRequest = <<>>
    /\ modelCalls = 0
    /\ llmReply = NoReply
    /\ extractResult = Pending

\* source is "" when the parameter is absent
NoCrawlParams == [source |-> "", usePuppeteer |-> FALSE]
NoCrawlResponse == [status |-> 0, success |-> FALSE, totalCount |-> 0, error |-> "none"]

\* the crawl endpoint before a request
CrawlIdle ==
    /\ rpc = "idle"
    /\ crawlParams = NoCrawlParams
    /\ browser = "undefined"
    /\ closeCalls = 0
    /\ crawlLog = <<>>
    /\ results = <<>>
    /\ crawlError = "none"
    /\ crawlResponse = NoCrawlResponse

\* the search page before it is mounted
SearchIdle ==
    /\ formRegion = <<>>
    /\ debounceTimer = <<>>
    /\ searchParams = <<>>
    /\ fetches = <<>>
    /\ searchResults = <<>>
    /\ loading = FALSE

OthersIdle == PipeIdle /\ ExtractIdle /\ CrawlIdle /\ SearchIdle

Min(a, b) == IF a < b THEN a ELSE b
Max(a, b) == IF a > b THEN a ELSE b

(***************************************************************************)
(* Bounds                                                                  *)
(***************************************************************************)
MaxRawHeight == 20200

(***************************************************************************)
(* Chunked capture: processBizinfoPage                                     *)
(***************************************************************************)
BIZ_CHUNK_HEIGHT == 3000
BIZ_MAX_CHUNKS == 6
BIZ_MIN_HEIGHT == 2000
BIZ_MAX_HEIGHT == 20000
BIZ_MIN_TAIL == 100

BizFinalHeight(h) == Min(Max(h, BIZ_MIN_HEIGHT), BIZ_MAX_HEIGHT)

\* every chunk CHUNK_HEIGHT high, the remaining height not looked at
BizChunkHeight_Fixed == BIZ_CHUNK_HEIGHT

BizChunkHeight == Min(BIZ_CHUNK_HEIGHT, finalHeight - capturedHeight)

\* the loop without its MAX_CHUNKS guard
BizLoopContinues_NoCap ==
    /\ capturedHeight < finalHeight
    /\ ~(BizChunkHeight < BIZ_MIN_TAIL /\ Len(screenshots) > 0)

\* the iteration reaches the screenshot: none of the loop's exits is taken
BizLoopContinues ==
    /\ capturedHeight < finalHeight
    /\ ~(Len(screenshots) >= BIZ_MAX_CHUNKS)
    /\ ~(BizChunkHeight < BIZ_MIN_TAIL /\ Len(screenshots) > 0)

CaptureIdle ==
    /\ site = "none"
    /\ cpc = "idle"
    /\ bodyHeight = 0
    /\ finalHeight = 0
    /\ capturedHeight = 0
    /\ screenshots = <<>>

\* viewerFrame.evaluate(max scrollHeight), the clamp, and entry into the loop
BizMeasure ==
    /\ cpc = "idle"
    /\ \E h \in 0..MaxRawHeight :
         /\ bodyHeight' = h
         /\ finalHeight' = BizFinalHeight(h)
    /\ site' = "bizinfo"
    /\ cpc' = "loop"
    /\ capturedHeight' = 0
    /\ screenshots' = <<>>
    /\ UNCHANGED nonCaptureVars

\* one iteration whose bodyEl.screenshot succeeds
BizCaptureChunk ==
    /\ site = "bizinfo" /\ cpc = "loop"
    /\ BizLoopContinues
    /\ screenshots' = Append(screenshots, [y |-> capturedHeight, height |-> BizChunkHeight])
    /\ capturedHeight' = capturedHeight + BizChunkHeight
    /\ UNCHANGED <<site, cpc, bodyHeight, finalHeight, nonCaptureVars>>

\* one iteration whose bodyEl.screenshot rejects: control leaves the loop
\* for the catch of the viewer block, the chunks taken so far are kept
BizCaptureFail ==
    /\ site = "bizinfo" /\ cpc = "loop"
    /\ BizLoopContinues
    /\ cpc' = "threw"
    /\ UNCHANGED <<site, bodyHeight, finalHeight, capturedHeight, screenshots, nonCaptureVars>>

\* the while condition is false or one of the two breaks is taken
BizLoopExit ==
    /\ site = "bizinfo" /\ cpc = "loop"
    /\ ~BizLoopContinues
    /\ cpc' = "done"
    /\ UNCHANGED <<site, bodyHeight, finalHeight, capturedHeight, screenshots, nonCaptureVars>>

(***************************************************************************)
(* Chunked capture: processKStartupPage                                    *)
(***************************************************************************)
KS_CHUNK_HEIGHT == 1500
KS_MAX_CHUNKS == 5
KS_MAX_HEIGHT == 10000

KsLimitHeight(h) == Min(h, KS_MAX_HEIGHT)

\* the loop without its MAX_CHUNKS guard
KsLoopContinues_NoCap ==
    capturedHeight < finalHeight

KsLoopContinues ==
    /\ capturedHeight < finalHeight
    /\ Len(screenshots) < KS_MAX_CHUNKS

KsMeasure ==
    /\ cpc = "idle"
    /\ \E h \in 0..MaxRawHeight :
         /\ bodyHeight' = h
         /\ finalHeight' = KsLimitHeight(h)
    /\ site' = "kstartup"
    /\ cpc' = "loop"
    /\ capturedHeight' = 0
    /\ screenshots' = <<>>
    /\ UNCHANGED nonCaptureVars

\* one iteration whose viewerPage.screenshot succeeds: a viewport-high shot
KsCaptureChunk ==
    /\ site = "kstartup" /\ cpc = "loop"
    /\ KsLoopContinues
    /\ screenshots' = Append(screenshots, [y |-> capturedHeight, height |-> KS_CHUNK_HEIGHT])
    /\ capturedHeight' = capturedHeight + KS_CHUNK_HEIGHT
    /\ UNCHANGED <<site, cpc, bodyHeight, finalHeight, nonCaptureVars>>

\* scrollTo or screenshot rejects: the function's catch returns null
KsCaptureFail ==
    /\ site = "kstartup" /\ cpc = "loop"
    /\ KsLoopContinues
    /\ cpc' = "threw"
    /\ UNCHANGED <<site, bodyHeight, finalHeight, capturedHeight, screenshots, nonCaptureVars>>

KsLoopExit ==
    /\ site = "kstartup" /\ cpc = "loop"
    /\ ~KsLoopContinues
    /\ cpc' = "done"
    /\ UNCHANGED <<site, bodyHeight, finalHeight, capturedHeight, screenshots, nonCaptureVars>>


(***************************************************************************)
(* Strings (String.prototype.includes, toLowerCase, parseInt) and the      *)
(* regular expressions of the matcher                                      *)
(***************************************************************************)
Includes(s, sub) ==
    \E i \in 0..(Len(s) - Len(sub)) : SubSeq(s, i + 1, i + Len(sub)) = sub

UpperCase == <<"A", "B", "C", "D", "E", "F", "G", "H", "I", "J", "K", "L", "M",
               "N", "O", "P", "Q", "R", "S", "T", "U", "V", "W", "X", "Y", "Z">>
LowerCase == <<"a", "b", "c", "d", "e", "f", "g", "h", "i", "j", "k", "l", "m",
               "n", "o", "p", "q", "r", "s", "t", "u", "v", "w", "x", "y", "z">>

LowerChar(c) ==
    IF \E i \in 1..26 : UpperCase[i] = c
    THEN LowerCase[CHOOSE i \in 1..26 : UpperCase[i] = c]
    ELSE c

ToLowerCase(s) == [i \in 1..Len(s) |-> LowerChar(s[i])]

Digits == <<"0", "1", "2", "3", "4", "5", "6", "7", "8", "9">>

IsDigit(c) == \E d \in 1..10 : Digits[d] = c
DigitValue(c) == (CHOOSE d \in 1..10 : Digits[d] = c) - 1

\* \s
IsSpace(c) == c \in {" ", "\t", "\n"}

\* the value Number / parseInt give for text that is not a number
NaN == -999999

\* first position at or after i that holds no digit (Len(s) + 1 at the end)
DigitsEnd(s, i) ==
    IF \E j \in i..Len(s) : ~IsDigit(s[j])
    THEN CHOOSE j \in i..Len(s) : ~IsDigit(s[j]) /\ \A k \in i..(j - 1) : IsDigit(s[k])
    ELSE Len(s) + 1

\* first position at or after i that holds no white space: \s*
SkipSpaces(s, i) ==
    IF \E j \in i..Len(s) : ~IsSpace(s[j])
    THEN CHOOSE j \in i..Len(s) : ~IsSpace(s[j]) /\ \A k \in i..(j - 1) : IsSpace(s[k])
    ELSE Len(s) + 1

RECURSIVE DecimalValue(_, _, _)
\* value of the digit run s[i..j-1]
DecimalValue(s, i, j) ==
    IF j <= i THEN 0 ELSE 10 * DecimalValue(s, i, j - 1) + DigitValue(s[j - 1])

\* parseInt(s): leading white space, an optional sign, then a digit run
ParseInt(s) ==
    LET a == SkipSpaces(s, 1)
        neg == a <= Len(s) /\ s[a] = "-"
        b == IF a <= Len(s) /\ s[a] \in {"-", "+"} THEN a + 1 ELSE a
        e == DigitsEnd(s, b)
    IN IF e = b THEN NaN
       ELSE IF neg THEN 0 - DecimalValue(s, b, e) ELSE DecimalValue(s, b, e)

\* JavaScript <, <=, >=, === on numbers: false whenever an operand is NaN
JsLt(a, b) == a # NaN /\ b # NaN /\ a < b
JsLe(a, b) == a # NaN /\ b # NaN /\ a <= b
JsGe(a, b) == a # NaN /\ b # NaN /\ a >= b
JsEq(a, b) == a # NaN /\ b # NaN /\ a = b

WordAt(s, i, w) == i + Len(w) - 1 <= Len(s) /\ SubSeq(s, i, i + Len(w) - 1) = w

\* (\d+)\s*<unit>\s*(<w1>|<w2>|...) matched with the digit run starting at i.
\* The leading optional 만 and \s* of the age patterns take no part in the
\* captures.  \d+ is greedy and what follows a run is never a digit, so the
\* capture is a whole digit run.
LimitAt(s, i, unit, words) ==
    LET e == DigitsEnd(s, i)
        u == SkipSpaces(s, e)
        w == SkipSpaces(s, u + 1)
    IN /\ i <= Len(s) /\ IsDigit(s[i])
       /\ (i = 1 \/ ~IsDigit(s[i - 1]))
       /\ u <= Len(s) /\ s[u] = unit
       /\ \E x \in words : WordAt(s, w, x)

HasLimit(s, unit, words) == \E i \in 1..Len(s) : LimitAt(s, i, unit, words)

\* String.prototype.match returns the leftmost match
FirstLimit(s, unit, words) ==
    LET i == CHOOSE k \in 1..Len(s) :
                 LimitAt(s, k, unit, words) /\ \A m \in 1..(k - 1) : ~LimitAt(s, m, unit, words)
        e == DigitsEnd(s, i)
        w == SkipSpaces(s, SkipSpaces(s, e) + 1)
    IN [limit |-> DecimalValue(s, i, e),
        type  |-> CHOOSE x \in words : WordAt(s, w, x)]

W_mugwan == <<"H_mu", "H_gwan">>
W_jehaneopseum == <<"H_je", "H_han", "H_eops", "H_eum">>
W_jehan_eopseum == <<"H_je", "H_han", " ", "H_eops", "H_eum">>
W_yebi == <<"H_ye", "H_bi">>
W_miman == <<"H_mi", "H_man">>
W_inae == <<"H_i", "H_nae">>
W_iha == <<"H_i", "H_ha">>
W_isang == <<"H_i", "H_sang">>
C_nyeon == "H_nyeon"
C_se == "H_se"

(***************************************************************************)
(* matchCompanyAge                                                         *)
(***************************************************************************)
CompanyAgeWords == {W_miman, W_inae, W_iha}

\* matchCompanyAge with the limit pattern tried before the sentinels
matchCompanyAge_LimitFirst(cond, years) ==
    LET normalized == ToLowerCase(cond) IN
    IF HasLimit(cond, C_nyeon, CompanyAgeWords)
    THEN LET yearMatch == FirstLimit(cond, C_nyeon, CompanyAgeWords) IN
         IF yearMatch.type = W_miman
         THEN JsLt(years, yearMatch.limit)
         ELSE JsLe(years, yearMatch.limit)
    ELSE TRUE

\* matchCompanyAge with "미만" compared inclusively
matchCompanyAge_UnderInclusive(cond, years) ==
    LET normalized == ToLowerCase(cond) IN
    IF Includes(normalized, W_mugwan) \/ Includes(normalized, W_jehaneopseum)
         \/ Includes(normalized, W_jehan_eopseum)
    THEN TRUE
    ELSE IF Includes(normalized, W_yebi) /\ JsEq(years, 0)
    THEN TRUE
    ELSE IF HasLimit(cond, C_nyeon, CompanyAgeWords)
    THEN JsLe(years, FirstLimit(cond, C_nyeon, CompanyAgeWords).limit)
    ELSE TRUE

\* matchCompanyAge reading the last limit of the condition, not the first
matchCompanyAge_LastLimit(cond, years) ==
    LET normalized == ToLowerCase(cond) IN
    IF Includes(normalized, W_mugwan) \/ Includes(normalized, W_jehaneopseum)
         \/ Includes(normalized, W_jehan_eopseum)
    THEN TRUE
    ELSE IF Includes(normalized, W_yebi) /\ JsEq(years, 0)
    THEN TRUE
    ELSE IF HasLimit(cond, C_nyeon, CompanyAgeWords)
    THEN LET i == CHOOSE k \in 1..Len(cond) :
                     /\ LimitAt(cond, k, C_nyeon, CompanyAgeWords)
                     /\ \A m \in (k + 1)..Len(cond) : ~LimitAt(cond, m, C_nyeon, CompanyAgeWords)
             yearMatch == FirstLimit(SubSeq(cond, i, Len(cond)), C_nyeon, CompanyAgeWords)
         IN IF yearMatch.type = W_miman
            THEN JsLt(years, yearMatch.limit)
            ELSE JsLe(years, yearMatch.limit)
    ELSE TRUE

matchCompanyAge(cond, years) ==
    LET normalized == ToLowerCase(cond) IN
    IF Includes(normalized, W_mugwan) \/ Includes(normalized, W_jehaneopseum)
         \/ Includes(normalized, W_jehan_eopseum)
    THEN TRUE
    ELSE IF Includes(normalized, W_yebi) /\ JsEq(years, 0)
    THEN TRUE
    ELSE IF HasLimit(cond, C_nyeon, CompanyAgeWords)
    THEN LET yearMatch == FirstLimit(cond, C_nyeon, CompanyAgeWords) IN
         IF yearMatch.type = W_miman
         THEN JsLt(years, yearMatch.limit)
         ELSE JsLe(years, yearMatch.limit)
    ELSE TRUE

(***************************************************************************)
(* matchRegion                                                             *)
(***************************************************************************)
W_jeonguk == <<"H_jeon", "H_guk">>
W_sudogwon == <<"H_su", "H_do", "H_gwon">>
W_seoul == <<"H_seo", "H_ul">>
W_gyeonggi == <<"H_gyeong", "H_gi">>
W_incheon == <<"H_in", "H_cheon">>

CapitalRegions == {W_seoul, W_gyeonggi, W_incheon}

\* matchRegion without the capital-region branch
matchRegion_NoCapital(cond, userRegion) ==
    LET normalized == ToLowerCase(cond) IN
    IF Includes(normalized, W_jeonguk) \/ Includes(normalized, W_mugwan)
    THEN TRUE
    ELSE Includes(cond, userRegion)

matchRegion(cond, userRegion) ==
    LET normalized == ToLowerCase(cond) IN
    IF Includes(normalized, W_jeonguk) \/ Includes(normalized, W_mugwan)
    THEN TRUE
    ELSE IF Includes(normalized, W_sudogwon)
    THEN userRegion \in CapitalRegions
    ELSE Includes(cond, userRegion)

(***************************************************************************)
(* matchAge                                                                *)
(***************************************************************************)
UnderWords == {W_iha, W_miman}
OverWords == {W_isang}

\* (\d+)\s*세?\s*[~\-]\s*(\d+)\s*세 matched with the first digit run starting at i
RangeAt(s, i) ==
    LET e1 == DigitsEnd(s, i)
        a  == SkipSpaces(s, e1)
        b  == IF a <= Len(s) /\ s[a] = C_se THEN SkipSpaces(s, a + 1) ELSE a
        c  == SkipSpaces(s, b + 1)
        e2 == DigitsEnd(s, c)
        d  == SkipSpaces(s, e2)
    IN /\ i <= Len(s) /\ IsDigit(s[i])
       /\ (i = 1 \/ ~IsDigit(s[i - 1]))
       /\ b <= Len(s) /\ s[b] \in {"~", "-"}
       /\ c <= Len(s) /\ IsDigit(s[c])
       /\ d <= Len(s) /\ s[d] = C_se

HasRange(s) == \E i \in 1..Len(s) : RangeAt(s, i)

FirstRange(s) ==
    LET i  == CHOOSE k \in 1..Len(s) : RangeAt(s, k) /\ \A m \in 1..(k - 1) : ~RangeAt(s, m)
        e1 == DigitsEnd(s, i)
        a  == SkipSpaces(s, e1)
        b  == IF a <= Len(s) /\ s[a] = C_se THEN SkipSpaces(s, a + 1) ELSE a
        c  == SkipSpaces(s, b + 1)
    IN [min |-> DecimalValue(s, i, e1), max |-> DecimalValue(s, c, DigitsEnd(s, c))]

\* matchAge with "이상" compared strictly
matchAge_StrictOver(cond, age) ==
    LET normalized == ToLowerCase(cond) IN
    IF Includes(normalized, W_mugwan) \/ Includes(normalized, W_jehaneopseum)
         \/ Includes(normalized, W_jehan_eopseum)
    THEN TRUE
    ELSE IF HasLimit(cond, C_se, UnderWords)
    THEN LET underMatch == FirstLimit(cond, C_se, UnderWords) IN
         IF underMatch.type = W_miman
         THEN JsLt(age, underMatch.limit)
         ELSE JsLe(age, underMatch.limit)
    ELSE IF HasRange(cond)
    THEN LET rangeMatch == FirstRange(cond) IN
         JsGe(age, rangeMatch.min) /\ JsLe(age, rangeMatch.max)
    ELSE IF HasLimit(cond, C_se, OverWords)
    THEN JsLt(FirstLimit(cond, C_se, OverWords).limit, age)
    ELSE TRUE

matchAge(cond, age) ==
    LET normalized == ToLowerCase(cond) IN
    IF Includes(normalized, W_mugwan) \/ Includes(normalized, W_jehaneopseum)
         \/ Includes(normalized, W_jehan_eopseum)
    THEN TRUE
    ELSE IF HasLimit(cond, C_se, UnderWords)
    THEN LET underMatch == FirstLimit(cond, C_se, UnderWords) IN
         IF underMatch.type = W_miman
         THEN JsLt(age, underMatch.limit)
         ELSE JsLe(age, underMatch.limit)
    ELSE IF HasRange(cond)
    THEN LET rangeMatch == FirstRange(cond) IN
         JsGe(age, rangeMatch.min) /\ JsLe(age, rangeMatch.max)
    ELSE IF HasLimit(cond, C_se, OverWords)
    THEN JsGe(age, FirstLimit(cond, C_se, OverWords).limit)
    ELSE TRUE

(***************************************************************************)
(* matchIndustry                                                           *)
(***************************************************************************)
W_jeonbunya == <<"H_jeon", "H_bun", "H_ya">>
W_jeoneopjong == <<"H_jeon", "H_eop", "H_jong">>
W_ilban == <<"H_il", "H_ban">>

industryKeywords ==
    << [code |-> <<"S", "W">>,
       keywords |-> <<<<"s", "w">>,
                      <<"i", "t">>,
                      <<"H_so", "H_peu", "H_teu", "H_we", "H_eo">>,
                      <<"H_jeong", "H_bo", "H_tong", "H_sin">>,
                      <<"i", "c", "t">>,
                      <<"H_di", "H_ji", "H_teol">>>>],
       [code |-> <<"H_je", "H_jo">>,
       keywords |-> <<<<"H_je", "H_jo">>,
                      <<"H_saeng", "H_san">>,
                      <<"H_gong", "H_jang">>>>],
       [code |-> <<"H_ba", "H_i", "H_o">>,
       keywords |-> <<<<"H_ba", "H_i", "H_o">>,
                      <<"H_hel", "H_seu">>,
                      <<"H_ui", "H_ryo">>,
                      <<"H_je", "H_yak">>,
                      <<"H_geon", "H_gang">>>>],
       [code |-> <<"H_kon", "H_ten", "H_cheu">>,
       keywords |-> <<<<"H_kon", "H_ten", "H_cheu">>,
                      <<"H_mi", "H_di", "H_eo">>,
                      <<"H_en", "H_teo">>,
                      <<"H_bang", "H_song">>,
                      <<"H_yeong", "H_sang">>>>],
       [code |-> <<"H_yu", "H_tong">>,
       keywords |-> <<<<"H_yu", "H_tong">>,
                      <<"H_mul", "H_ryu">>,
                      <<"H_bae", "H_song">>,
                      <<"H_keo", "H_meo", "H_seu">>>>],
       [code |-> <<"H_gwan", "H_gwang">>,
       keywords |-> <<<<"H_gwan", "H_gwang">>,
                      <<"H_yeo", "H_haeng">>,
                      <<"H_suk", "H_bak">>,
                      <<"H_seo", "H_bi", "H_seu">>>>],
       [code |-> <<"H_e", "H_neo", "H_ji">>,
       keywords |-> <<<<"H_e", "H_neo", "H_ji">>,
                      <<"H_hwan", "H_gyeong">>,
                      <<"H_geu", "H_rin">>,
                      <<"H_chin", "H_hwan", "H_gyeong">>,
                      <<"H_sin", "H_jae", "H_saeng">>>>],
       [code |-> <<"H_nong", "H_eop">>,
       keywords |-> <<<<"H_nong", "H_eop">>,
                      <<"H_sik", "H_pum">>,
                      <<"H_nong", "H_sik", "H_pum">>,
                      <<"H_pu", "H_deu">>>>]>>

\* property names every object literal inherits from Object.prototype; the
\* value found under each is a function (an object for __proto__), not an array
ObjectPrototypeKeys ==
    {<<"c", "o", "n", "s", "t", "r", "u", "c", "t", "o", "r">>,
     <<"t", "o", "S", "t", "r", "i", "n", "g">>,
     <<"t", "o", "L", "o", "c", "a", "l", "e", "S", "t", "r", "i", "n", "g">>,
     <<"v", "a", "l", "u", "e", "O", "f">>,
     <<"h", "a", "s", "O", "w", "n", "P", "r", "o", "p", "e", "r", "t", "y">>,
     <<"i", "s", "P", "r", "o", "t", "o", "t", "y", "p", "e", "O", "f">>,
     <<"p", "r", "o", "p", "e", "r", "t", "y", "I", "s", "E", "n", "u", "m", "e", "r", "a", "b", "l", "e">>,
     <<"_", "_", "p", "r", "o", "t", "o", "_", "_">>,
     <<"_", "_", "d", "e", "f", "i", "n", "e", "G", "e", "t", "t", "e", "r", "_", "_">>,
     <<"_", "_", "d", "e", "f", "i", "n", "e", "S", "e", "t", "t", "e", "r", "_", "_">>,
     <<"_", "_", "l", "o", "o", "k", "u", "p", "G", "e", "t", "t", "e", "r", "_", "_">>,
     <<"_", "_", "l", "o", "o", "k", "u", "p", "S", "e", "t", "t", "e", "r", "_", "_">>}

HasOwnKeywords(userIndustry) ==
    \E k \in 1..Len(industryKeywords) : industryKeywords[k].code = userIndustry

\* industryKeywords[userIndustry] || [userIndustry.toLowerCase()], for a
\* userIndustry that is not an inherited property name
IndustryKeywordList(userIndustry) ==
    IF HasOwnKeywords(userIndustry)
    THEN industryKeywords[CHOOSE k \in 1..Len(industryKeywords) :
                              industryKeywords[k].code = userIndustry].keywords
    ELSE <<ToLowerCase(userIndustry)>>

IndustrySentinel(cond) ==
    LET normalized == ToLowerCase(cond) IN
    \/ Includes(normalized, W_jeonbunya)
    \/ Includes(normalized, W_jeoneopjong)
    \/ Includes(normalized, W_mugwan)
    \/ Includes(normalized, W_ilban)

\* keywords.some is called on a value that has no such method: TypeError
matchIndustryThrows(cond, userIndustry) ==
    /\ ~IndustrySentinel(cond)
    /\ userIndustry \in ObjectPrototypeKeys

matchIndustry(cond, userIndustry) ==
    LET normalized == ToLowerCase(cond)
        keywords == IndustryKeywordList(userIndustry)
    IN IF IndustrySentinel(cond)
       THEN TRUE
       ELSE \E k \in 1..Len(keywords) : Includes(normalized, keywords[k])

CaptureNext ==
    \/ BizMeasure
    \/ BizCaptureChunk
    \/ BizCaptureFail
    \/ BizLoopExit
    \/ KsMeasure
    \/ KsCaptureChunk
    \/ KsCaptureFail
    \/ KsLoopExit


(***************************************************************************)
(* Calls of the four rule functions on bounded inputs                      *)
(***************************************************************************)
MaxPhrases == 2
\* a founding year may lie this many years after the current one
MaxYearsAhead == 1
MinYears == 0 - MaxYearsAhead
MaxYears == 11
MinAge == 17
MaxAge == 41

RECURSIVE Flatten(_)
Flatten(ps) == IF ps = <<>> THEN <<>> ELSE Head(ps) \o Flatten(Tail(ps))

\* condition texts are concatenations of at most MaxPhrases phrases
Texts(phrases) ==
    { Flatten(ps) : ps \in UNION { [1..n -> phrases] : n \in 0..MaxPhrases } }

\* "무관", "제한없음", "제한 없음", "예비창업자", "3년 미만", "7년 미만", "7년 이내",
\* "3년이하", "0년 미만", "10 년  이내", ", ", "창업 ", "1", "5년 이상",
\* "1년 미만, 3년 미만, 7년 미만"
CompanyAgePhrases ==
    {<<"H_mu", "H_gwan">>,
     <<"H_je", "H_han", "H_eops", "H_eum">>,
     <<"H_je", "H_han", " ", "H_eops", "H_eum">>,
     <<"H_ye", "H_bi", "H_chang", "H_eop", "H_ja">>,
     <<"3", "H_nyeon", " ", "H_mi", "H_man">>,
     <<"7", "H_nyeon", " ", "H_mi", "H_man">>,
     <<"7", "H_nyeon", " ", "H_i", "H_nae">>,
     <<"3", "H_nyeon", "H_i", "H_ha">>,
     <<"0", "H_nyeon", " ", "H_mi", "H_man">>,
     <<"1", "0", " ", "H_nyeon", " ", " ", "H_i", "H_nae">>,
     <<",", " ">>,
     <<"H_chang", "H_eop", " ">>,
     <<"1">>,
     <<"5", "H_nyeon", " ", "H_i", "H_sang">>,
     <<"1", "H_nyeon", " ", "H_mi", "H_man", ",", " ", "3", "H_nyeon", " ", "H_mi", "H_man", ",", " ", "7", "H_nyeon", " ", "H_mi", "H_man">>}

\* "무관", "제한없음", "만 39세 이하", "39세 미만", "만 19세 이상", "19세이상",
\* "만 19세~39세", "19~39세", "만 19세 - 39세", "만 19세 이상 39세 이하", ", ",
\* "청년 ", "2", " "
AgePhrases ==
    {<<"H_mu", "H_gwan">>,
     <<"H_je", "H_han", "H_eops", "H_eum">>,
     <<"H_man", " ", "3", "9", "H_se", " ", "H_i", "H_ha">>,
     <<"3", "9", "H_se", " ", "H_mi", "H_man">>,
     <<"H_man", " ", "1", "9", "H_se", " ", "H_i", "H_sang">>,
     <<"1", "9", "H_se", "H_i", "H_sang">>,
     <<"H_man", " ", "1", "9", "H_se", "~", "3", "9", "H_se">>,
     <<"1", "9", "~", "3", "9", "H_se">>,
     <<"H_man", " ", "1", "9", "H_se", " ", "-", " ", "3", "9", "H_se">>,
     <<"H_man", " ", "1", "9", "H_se", " ", "H_i", "H_sang", " ", "3", "9", "H_se", " ", "H_i", "H_ha">>,
     <<",", " ">>,
     <<"H_cheong", "H_nyeon", " ">>,
     <<"2">>,
     <<" ">>}

\* "전국", "무관", "수도권", "서울", "경기", "인천", "부산", "서울특별시", ", ",
\* " 소재 기업"
RegionPhrases ==
    {<<"H_jeon", "H_guk">>,
     <<"H_mu", "H_gwan">>,
     <<"H_su", "H_do", "H_gwon">>,
     <<"H_seo", "H_ul">>,
     <<"H_gyeong", "H_gi">>,
     <<"H_in", "H_cheon">>,
     <<"H_bu", "H_san">>,
     <<"H_seo", "H_ul", "H_teuk", "H_byeol", "H_si">>,
     <<",", " ">>,
     <<" ", "H_so", "H_jae", " ", "H_gi", "H_eop">>}

\* "서울", "경기", "인천", "부산", "대전", "서울특별시", ""
UserRegions ==
    {<<"H_seo", "H_ul">>,
     <<"H_gyeong", "H_gi">>,
     <<"H_in", "H_cheon">>,
     <<"H_bu", "H_san">>,
     <<"H_dae", "H_jeon">>,
     <<"H_seo", "H_ul", "H_teuk", "H_byeol", "H_si">>,
     <<>>}

\* "전분야", "전업종", "무관", "일반", "SW", "IT", "소프트웨어", "제조", "생산",
\* "바이오", "Digital", "AI", "constructor", ", ", " 기업 대상"
IndustryPhrases ==
    {<<"H_jeon", "H_bun", "H_ya">>,
     <<"H_jeon", "H_eop", "H_jong">>,
     <<"H_mu", "H_gwan">>,
     <<"H_il", "H_ban">>,
     <<"S", "W">>,
     <<"I", "T">>,
     <<"H_so", "H_peu", "H_teu", "H_we", "H_eo">>,
     <<"H_je", "H_jo">>,
     <<"H_saeng", "H_san">>,
     <<"H_ba", "H_i", "H_o">>,
     <<"D", "i", "g", "i", "t", "a", "l">>,
     <<"A", "I">>,
     <<"c", "o", "n", "s", "t", "r", "u", "c", "t", "o", "r">>,
     <<",", " ">>,
     <<" ", "H_gi", "H_eop", " ", "H_dae", "H_sang">>}

\* "SW", "sw", "제조", "바이오", "관광", "AI", "constructor", ""
UserIndustries ==
    {<<"S", "W">>,
     <<"s", "w">>,
     <<"H_je", "H_jo">>,
     <<"H_ba", "H_i", "H_o">>,
     <<"H_gwan", "H_gwang">>,
     <<"A", "I">>,
     <<"c", "o", "n", "s", "t", "r", "u", "c", "t", "o", "r">>,
     <<>>}

RuleNames == {"matchCompanyAge", "matchRegion", "matchAge", "matchIndustry"}

PhrasesOf(r) ==
    CASE r = "matchCompanyAge" -> CompanyAgePhrases
      [] r = "matchRegion"     -> RegionPhrases
      [] r = "matchAge"        -> AgePhrases
      [] r = "matchIndustry"   -> IndustryPhrases

UserValuesOf(r) ==
    CASE r = "matchCompanyAge" -> (MinYears..MaxYears) \cup {NaN}
      [] r = "matchRegion"     -> UserRegions
      [] r = "matchAge"        -> (MinAge..MaxAge) \cup {NaN}
      [] r = "matchIndustry"   -> UserIndustries

BoolText(b) == IF b THEN "true" ELSE "false"

RulesIdle ==
    /\ rule = "none"
    /\ condition = <<>>
    /\ userValue = 0
    /\ ruleResult = "pending"

InitCapture == CaptureIdle /\ RulesIdle /\ MatchIdle /\ OthersIdle

InitRules ==
    /\ CaptureIdle
    /\ MatchIdle
    /\ OthersIdle
    /\ \E r \in RuleNames :
         /\ rule = r
         /\ condition \in Texts(PhrasesOf(r))
         /\ userValue \in UserValuesOf(r)
    /\ ruleResult = "pending"

CallMatchCompanyAge ==
    /\ rule = "matchCompanyAge" /\ ruleResult = "pending"
    /\ ruleResult' = BoolText(matchCompanyAge(condition, userValue))
    /\ UNCHANGED <<rule, condition, userValue, nonRuleVars>>

CallMatchRegion ==
    /\ rule = "matchRegion" /\ ruleResult = "pending"
    /\ ruleResult' = BoolText(matchRegion(condition, userValue))
    /\ UNCHANGED <<rule, condition, userValue, nonRuleVars>>

CallMatchAge ==
    /\ rule = "matchAge" /\ ruleResult = "pending"
    /\ ruleResult' = BoolText(matchAge(condition, userValue))
    /\ UNCHANGED <<rule, condition, userValue, nonRuleVars>>

CallMatchIndustry ==
    /\ rule = "matchIndustry" /\ ruleResult = "pending"
    /\ ruleResult' = IF matchIndustryThrows(condition, userValue)
                     THEN "throws"
                     ELSE BoolText(matchIndustry(condition, userValue))
    /\ UNCHANGED <<rule, condition, userValue, nonRuleVars>>

RulesNext ==
    \/ CallMatchCompanyAge
    \/ CallMatchRegion
    \/ CallMatchAge
    \/ CallMatchIndustry

SpecCapture == InitCapture /\ [][CaptureNext]_vars

SpecRules == InitRules /\ [][RulesNext]_vars


(***************************************************************************)
(* GET /api/match                                                          *)
(***************************************************************************)
MaxPrograms == 2
FirstNow == 24323
MaxNowOffset == 1

\* time is counted in months: now.getFullYear() and now.getMonth() + 1
FullYear(t) == t \div 12
MonthOfYear(t) == (t % 12) + 1

\* a string or null in a condition of an if
Truthy(s) == s # Null /\ s # <<>>

\* Number(s) for the strings split('-') yields: "" is 0, a digit run (signed,
\* white space around it) is its value, anything else NaN
JsNumber(s) ==
    LET a == SkipSpaces(s, 1)
        neg == a <= Len(s) /\ s[a] = "-"
        b == IF a <= Len(s) /\ s[a] \in {"-", "+"} THEN a + 1 ELSE a
        e == DigitsEnd(s, b)
    IN IF a > Len(s) THEN 0
       ELSE IF e = b \/ SkipSpaces(s, e) <= Len(s) THEN NaN
       ELSE IF neg THEN 0 - DecimalValue(s, b, e) ELSE DecimalValue(s, b, e)

\* a - b on numbers
JsMinus(a, b) == IF a = NaN \/ b = NaN THEN NaN ELSE a - b

\* position of the first '-' at or after i (Len(s) + 1 when there is none)
DashFrom(s, i) ==
    IF \E j \in i..Len(s) : s[j] = "-"
    THEN CHOOSE j \in i..Len(s) : s[j] = "-" /\ \A k \in i..(j - 1) : s[k] # "-"
    ELSE Len(s) + 1

\* const [birthYear, birthMonthNum] = birthMonth.split('-').map(Number);
\* a missing second part is undefined, which compares like NaN
BirthYearOf(birthMonth) == JsNumber(SubSeq(birthMonth, 1, DashFrom(birthMonth, 1) - 1))
BirthMonthNumOf(birthMonth) ==
    LET d == DashFrom(birthMonth, 1) IN
    IF d > Len(birthMonth) THEN NaN
    ELSE JsNumber(SubSeq(birthMonth, d + 1, DashFrom(birthMonth, d + 1) - 1))

\* companyAgeYears, for a foundingYear that is supplied
CompanyAgeYearsOf(now, foundingYear) == JsMinus(FullYear(now), ParseInt(foundingYear))

\* ceoAge, for a birthMonth that is supplied
CeoAgeOf(now, birthMonth) ==
    LET ceoAge == JsMinus(FullYear(now), BirthYearOf(birthMonth)) IN
    IF JsLt(MonthOfYear(now), BirthMonthNumOf(birthMonth))
    THEN JsMinus(ceoAge, 1)
    ELSE ceoAge

\* the query without its deadline comparison
DateFilter_NoDeadline(p, now) == p.applicationEnd # NullDate

\* where: { applicationEnd: { gte: now } } -- a comparison never selects NULL
DateFilter(p, now) == p.applicationEnd # NullDate /\ p.applicationEnd >= now

\* orderBy: { applicationEnd: 'asc' }: every order of the selected rows that
\* ascends in applicationEnd; rows with equal applicationEnd come in any order
FindMany(rows, now) ==
    LET selected == {i \in DOMAIN rows : DateFilter(rows[i], now)}
        n == Cardinality(selected)
    IN {[k \in 1..n |-> rows[order[k]]] :
           order \in {o \in [1..n -> selected] :
                         /\ \A j, k \in 1..n : j # k => o[j] # o[k]
                         /\ \A j, k \in 1..n :
                               j < k => rows[o[j]].applicationEnd <= rows[o[k]].applicationEnd}}

\* the filter callback for one program: "keep" (true), "drop" (false) or
\* "throw" (matchIndustry raised)
FilterOutcome(p, req) ==
    IF /\ Truthy(req.foundingYear) /\ Truthy(p.companyAge)
       /\ ~matchCompanyAge(p.companyAge, CompanyAgeYearsOf(req.now, req.foundingYear))
    THEN "drop"
    ELSE IF /\ Truthy(req.region) /\ Truthy(p.targetRegion)
            /\ ~matchRegion(p.targetRegion, req.region)
    THEN "drop"
    ELSE IF /\ Truthy(req.birthMonth) /\ Truthy(p.targetAge)
            /\ ~matchAge(p.targetAge, CeoAgeOf(req.now, req.birthMonth))
    THEN "drop"
    ELSE IF Truthy(req.industry) /\ Truthy(p.targetIndustry)
    THEN IF matchIndustryThrows(p.targetIndustry, req.industry) THEN "throw"
         ELSE IF ~matchIndustry(p.targetIndustry, req.industry) THEN "drop"
         ELSE "keep"
    ELSE "keep"

\* the four condition columns of a stored row: null, "", null, ""
BlankConditions ==
    [companyAge |-> Null, targetRegion |-> <<>>, targetAge |-> Null, targetIndustry |-> <<>>]
\* "3년 미만", "서울", "만 39세 이하", "SW"
RestrictiveConditions ==
    [companyAge |-> <<"3", "H_nyeon", " ", "H_mi", "H_man">>, targetRegion |-> <<"H_seo", "H_ul">>,
     targetAge |-> <<"H_man", " ", "3", "9", "H_se", " ", "H_i", "H_ha">>, targetIndustry |-> <<"S", "W">>]
\* "무관", "수도권", "", "전분야"
PermissiveConditions ==
    [companyAge |-> <<"H_mu", "H_gwan">>, targetRegion |-> <<"H_su", "H_do", "H_gwon">>,
     targetAge |-> <<>>, targetIndustry |-> <<"H_jeon", "H_bun", "H_ya">>]

\* deadlines and conditions of the rows a table is drawn from
StoredPrograms ==
    {[applicationEnd |-> NullDate, conditions |-> BlankConditions],
     [applicationEnd |-> FirstNow - 1, conditions |-> BlankConditions],
     [applicationEnd |-> FirstNow - 1, conditions |-> RestrictiveConditions],
     [applicationEnd |-> FirstNow, conditions |-> RestrictiveConditions],
     [applicationEnd |-> FirstNow, conditions |-> BlankConditions],
     [applicationEnd |-> FirstNow + MaxNowOffset, conditions |-> PermissiveConditions]}

Rows ==
    {[id |-> i, applicationEnd |-> sp.applicationEnd,
      companyAge |-> sp.conditions.companyAge,
      targetRegion |-> sp.conditions.targetRegion,
      targetAge |-> sp.conditions.targetAge,
      targetIndustry |-> sp.conditions.targetIndustry] :
        i \in 1..MaxPrograms, sp \in StoredPrograms}

\* the table: row k has id k
Tables ==
    UNION {{t \in [1..n -> Rows] : \A k \in 1..n : t[k].id = k} : n \in 0..MaxPrograms}

\* foundingYear: absent, "2026", "abc"
FoundingYears == {Null, <<"2", "0", "2", "6">>, <<"a", "b", "c">>}
\* region: absent, "", "서울", "부산"
Regions == {Null, <<>>, <<"H_seo", "H_ul">>, <<"H_bu", "H_san">>}
\* birthMonth: absent, "1987-01", "1987-12"
BirthMonths == {Null, <<"1", "9", "8", "7", "-", "0", "1">>, <<"1", "9", "8", "7", "-", "1", "2">>}
\* industry: absent, "SW", "constructor"
Industries == {Null, <<"S", "W">>, <<"c", "o", "n", "s", "t", "r", "u", "c", "t", "o", "r">>}

InitMatch ==
    /\ CaptureIdle
    /\ RulesIdle
    /\ OthersIdle
    /\ db \in Tables
    /\ request = NoRequest
    /\ programs = <<>>
    /\ response = NoResponse

\* the whole handler: parameters, findMany, filter, response
GetMatch ==
    /\ response = NoResponse
    /\ \E now \in FirstNow..(FirstNow + MaxNowOffset) :
       \E foundingYear \in FoundingYears : \E region \in Regions :
       \E birthMonth \in BirthMonths : \E industry \in Industries :
       \E found \in FindMany(db, now) :
         LET req == [now |-> now, foundingYear |-> foundingYear, region |-> region,
                     birthMonth |-> birthMonth, industry |-> industry]
             Kept(p) == FilterOutcome(p, req) = "keep"
             \* filter stops at the first callback that throws
             threw == \E k \in 1..Len(found) : FilterOutcome(found[k], req) = "throw"
         IN /\ request' = req
            /\ programs' = found
            /\ response' = IF threw
                           THEN [status |-> 500, data |-> <<>>]
                           ELSE [status |-> 200, data |-> SelectSeq(found, Kept)]
    /\ UNCHANGED <<db, nonMatchVars>>

MatchNext == GetMatch

SpecMatch == InitMatch /\ [][MatchNext]_vars

(***************************************************************************)
(* C1                                                                      *)
(***************************************************************************)
CeilDiv(a, b) == (a + b - 1) \div b

ChunkHeightOf(s) == IF s = "bizinfo" THEN 3000 ELSE 1500
MaxChunksOf(s) == IF s = "bizinfo" THEN 6 ELSE 5
ClampedOf(s, h) == IF s = "bizinfo"
                   THEN (IF h < 2000 THEN 2000 ELSE IF h > 20000 THEN 20000 ELSE h)
                   ELSE (IF h > 10000 THEN 10000 ELSE h)

\* C1 as stated: when the capture loop has ended, the number of chunks is
\* ceil(H / C), or MAX_CHUNKS when ceil(H / C) exceeds MAX_CHUNKS.
C1_AsStated ==
    cpc = "done" =>
        Len(screenshots) =
            Min(CeilDiv(ClampedOf(site, bodyHeight), ChunkHeightOf(site)), MaxChunksOf(site))

\* C1 (amended): when the capture loop has run to its end, K-Startup holds
\* min(5, ceil(H / 1500)) chunks and Bizinfo holds min(6, ceil(H / 3000))
\* chunks, less the final slice when that slice is shorter than 100 px
\* (0 < H mod 3000 < 100); an error never leaves the loop with MAX_CHUNKS
\* chunks captured.
C1_ChunkCount ==
    /\ (cpc = "done" /\ site = "bizinfo") =>
          LET H == ClampedOf(site, bodyHeight)
              tail == H % 3000
          IN Len(screenshots) =
                 Min(6, IF tail > 0 /\ tail < 100 THEN H \div 3000 ELSE CeilDiv(H, 3000))
    /\ (cpc = "done" /\ site = "kstartup") =>
          Len(screenshots) = Min(5, CeilDiv(ClampedOf(site, bodyHeight), 1500))
    /\ (cpc = "threw" /\ site = "bizinfo") => Len(screenshots) < 6
    /\ (cpc = "threw" /\ site = "kstartup") => Len(screenshots) < 5

\* a Bizinfo run whose last slice of 50 px was dropped: 3050 px give one chunk
C1_Witness ==
    /\ cpc = "done" /\ site = "bizinfo"
    /\ bodyHeight = 3050
    /\ Len(screenshots) = 1

(***************************************************************************)
(* C5 - C10: the rule functions                                            *)
(***************************************************************************)
RuleCalled(r) == rule = r /\ ruleResult # "pending"

\* C5: a company-age condition containing "무관", "제한없음" or "제한 없음"
\* makes matchCompanyAge return true for every numeric input, whatever limit
\* the same string states.
C5_SentinelAlwaysPasses ==
    (/\ RuleCalled("matchCompanyAge")
     /\ \/ Includes(condition, <<"H_mu", "H_gwan">>)
        \/ Includes(condition, <<"H_je", "H_han", "H_eops", "H_eum">>)
        \/ Includes(condition, <<"H_je", "H_han", " ", "H_eops", "H_eum">>))
    => ruleResult = "true"

\* "3년 미만무관" called with 11 years: the limit is exceeded, the sentinel wins
C5_Witness ==
    /\ RuleCalled("matchCompanyAge")
    /\ condition = <<"3", "H_nyeon", " ", "H_mi", "H_man", "H_mu", "H_gwan">>
    /\ userValue = 11
    /\ ruleResult = "true"

\* the single-limit company-age phrases and what each one states
CompanyAgeLimits ==
    {[text |-> <<"3", "H_nyeon", " ", "H_mi", "H_man">>, n |-> 3, inclusive |-> FALSE],
     [text |-> <<"7", "H_nyeon", " ", "H_mi", "H_man">>, n |-> 7, inclusive |-> FALSE],
     [text |-> <<"0", "H_nyeon", " ", "H_mi", "H_man">>, n |-> 0, inclusive |-> FALSE],
     [text |-> <<"7", "H_nyeon", " ", "H_i", "H_nae">>, n |-> 7, inclusive |-> TRUE],
     [text |-> <<"3", "H_nyeon", "H_i", "H_ha">>, n |-> 3, inclusive |-> TRUE],
     [text |-> <<"1", "0", " ", "H_nyeon", " ", " ", "H_i", "H_nae">>, n |-> 10, inclusive |-> TRUE]}

\* text around a limit that states nothing itself: "", ", ", "창업 "
CompanyAgeFillers == {<<>>, <<",", " ">>, <<"H_chang", "H_eop", " ">>}

\* C6: a sentinel-free condition stating one limit N passes exactly when
\* years < N for "N년 미만" and exactly when years <= N for "N년 이내" and
\* "N년 이하"; a condition carrying "예비" passes when years = 0.
C6_SingleLimit ==
    /\ \A L \in CompanyAgeLimits : \A pre \in CompanyAgeFillers : \A suf \in CompanyAgeFillers :
          (RuleCalled("matchCompanyAge") /\ condition = pre \o L.text \o suf) =>
              (ruleResult = "true") =
                  (/\ userValue # NaN
                   /\ IF L.inclusive THEN userValue <= L.n ELSE userValue < L.n)
    /\ (RuleCalled("matchCompanyAge") /\ Includes(condition, <<"H_ye", "H_bi">>) /\ userValue = 0)
          => ruleResult = "true"

\* "7년 미만" called with exactly 7 years is rejected
C6_Witness ==
    /\ RuleCalled("matchCompanyAge")
    /\ condition = <<"7", "H_nyeon", " ", "H_mi", "H_man">>
    /\ userValue = 7
    /\ ruleResult = "false"

\* the single-bound age phrases and what each one states
AgeBounds ==
    {[text |-> <<"H_man", " ", "3", "9", "H_se", " ", "H_i", "H_ha">>, n |-> 39, kind |-> "le"],
     [text |-> <<"3", "9", "H_se", " ", "H_mi", "H_man">>, n |-> 39, kind |-> "lt"],
     [text |-> <<"H_man", " ", "1", "9", "H_se", " ", "H_i", "H_sang">>, n |-> 19, kind |-> "ge"],
     [text |-> <<"1", "9", "H_se", "H_i", "H_sang">>, n |-> 19, kind |-> "ge"]}

\* "", ", ", "청년 ", " "
AgeFillers == {<<>>, <<",", " ">>, <<"H_cheong", "H_nyeon", " ">>, <<" ">>}

\* C7: a sentinel-free age condition stating a single bound N passes exactly
\* when age <= N ("N세 이하"), age < N ("N세 미만"), age >= N ("N세 이상").
C7_SingleBound ==
    \A B \in AgeBounds : \A pre \in AgeFillers : \A suf \in AgeFillers :
        (RuleCalled("matchAge") /\ condition = pre \o B.text \o suf) =>
            (ruleResult = "true") =
                (/\ userValue # NaN
                 /\ CASE B.kind = "le" -> userValue <= B.n
                      [] B.kind = "lt" -> userValue < B.n
                      [] B.kind = "ge" -> userValue >= B.n)

\* "만 19세 이상" called with age 18 is rejected
C7_Witness ==
    /\ RuleCalled("matchAge")
    /\ condition = <<"H_man", " ", "1", "9", "H_se", " ", "H_i", "H_sang">>
    /\ userValue = 18
    /\ ruleResult = "false"

\* the two-bound age phrases: "만 19세~39세", "19~39세", "만 19세 - 39세" and
\* "만 19세 이상 39세 이하"
AgeRanges ==
    {<<"H_man", " ", "1", "9", "H_se", "~", "3", "9", "H_se">>, <<"1", "9", "~", "3", "9", "H_se">>, <<"H_man", " ", "1", "9", "H_se", " ", "-", " ", "3", "9", "H_se">>, <<"H_man", " ", "1", "9", "H_se", " ", "H_i", "H_sang", " ", "3", "9", "H_se", " ", "H_i", "H_ha">>}

\* C8: an age condition stating the lower bound 19 and the upper bound 39,
\* in the tilde form or in the "이상 ... 이하" form, passes exactly when
\* 19 <= age <= 39.
C8_AsStated ==
    \A text \in AgeRanges :
        (RuleCalled("matchAge") /\ condition = text) =>
            (ruleResult = "true") = (userValue # NaN /\ 19 <= userValue /\ userValue <= 39)

\* C9: matchRegion is true for every region when the condition contains
\* "전국" or "무관"; otherwise, when it contains "수도권", exactly for 서울,
\* 경기 and 인천; otherwise exactly when the condition contains the region.
C9_RegionRule ==
    RuleCalled("matchRegion") =>
        IF Includes(condition, <<"H_jeon", "H_guk">>) \/ Includes(condition, <<"H_mu", "H_gwan">>)
        THEN ruleResult = "true"
        ELSE IF Includes(condition, <<"H_su", "H_do", "H_gwon">>)
        THEN (ruleResult = "true") = (userValue \in {<<"H_seo", "H_ul">>, <<"H_gyeong", "H_gi">>, <<"H_in", "H_cheon">>})
        ELSE (ruleResult = "true") = Includes(condition, userValue)

\* "수도권부산" asked for 부산: the capital-region marker decides, not the name
C9_Witness ==
    /\ RuleCalled("matchRegion")
    /\ condition = <<"H_su", "H_do", "H_gwon", "H_bu", "H_san">>
    /\ userValue = <<"H_bu", "H_san">>
    /\ ruleResult = "false"

\* the synonym set the claim gives each industry code: the table's entry, or
\* the lower-cased code itself for a code the table does not list
C10_Synonyms(code) ==
    IF \E k \in 1..Len(industryKeywords) : industryKeywords[k].code = code
    THEN LET e == CHOOSE k \in 1..Len(industryKeywords) : industryKeywords[k].code = code
         IN {industryKeywords[e].keywords[j] : j \in 1..Len(industryKeywords[e].keywords)}
    ELSE {ToLowerCase(code)}

\* C10: matchIndustry is true for every code when the condition contains
\* "전분야", "전업종", "무관" or "일반"; otherwise it is true exactly when the
\* lower-cased condition contains a keyword of the code's synonym set.
C10_AsStated ==
    RuleCalled("matchIndustry") =>
        IF \/ Includes(condition, <<"H_jeon", "H_bun", "H_ya">>) \/ Includes(condition, <<"H_jeon", "H_eop", "H_jong">>)
           \/ Includes(condition, <<"H_mu", "H_gwan">>) \/ Includes(condition, <<"H_il", "H_ban">>)
        THEN ruleResult = "true"
        ELSE /\ ruleResult \in {"true", "false"}
             /\ (ruleResult = "true") =
                    (\E kw \in C10_Synonyms(userValue) : Includes(ToLowerCase(condition), kw))

(***************************************************************************)
(* C2 - C4: the match query                                                *)
(***************************************************************************)
Answered == response # NoResponse

InSeq(x, s) == \E k \in 1..Len(s) : s[k] = x

\* C2: a program whose applicationEnd is null is kept by the date filter: it
\* is in the candidate pool for every query time and every user profile.
C2_AsStated ==
    Answered =>
        \A k \in DOMAIN db : db[k].applicationEnd = NullDate => InSeq(db[k], programs)

\* C3: a program whose applicationEnd is earlier than the query time is never
\* in the match result, whatever its condition fields and the user's profile.
C3_ExpiredExcluded ==
    Answered =>
        \A k \in DOMAIN db :
            (db[k].applicationEnd # NullDate /\ db[k].applicationEnd < request.now)
                => ~InSeq(db[k], response.data)

\* a request without any profile field is answered with a non-empty list that
\* leaves out a stored program which ended the month before and whose
\* conditions are all blank
C3_Witness ==
    /\ response.status = 200
    /\ Len(response.data) > 0
    /\ request.foundingYear = Null /\ request.region = Null
    /\ request.birthMonth = Null /\ request.industry = Null
    /\ \E k \in DOMAIN db :
         /\ db[k].applicationEnd = request.now - 1
         /\ db[k].companyAge = Null /\ db[k].targetAge = Null
         /\ ~InSeq(db[k], response.data)

\* a rule holds for a program when the program stores a condition for it and
\* the rule function is true of that condition; a program that stores no
\* condition for a rule puts no restriction on it
C4_RuleHolds(p, r) ==
    CASE r = "matchCompanyAge" ->
             Truthy(p.companyAge) =>
                 matchCompanyAge(p.companyAge, CompanyAgeYearsOf(request.now, request.foundingYear))
      [] r = "matchRegion" ->
             Truthy(p.targetRegion) => matchRegion(p.targetRegion, request.region)
      [] r = "matchAge" ->
             Truthy(p.targetAge) =>
                 matchAge(p.targetAge, CeoAgeOf(request.now, request.birthMonth))
      [] r = "matchIndustry" ->
             Truthy(p.targetIndustry) =>
                 (\E kw \in C10_Synonyms(request.industry) :
                      \/ Includes(ToLowerCase(p.targetIndustry), kw)
                      \/ IndustrySentinel(p.targetIndustry))

C4_Supplied(r) ==
    CASE r = "matchCompanyAge" -> Truthy(request.foundingYear)
      [] r = "matchRegion"     -> Truthy(request.region)
      [] r = "matchAge"        -> Truthy(request.birthMonth)
      [] r = "matchIndustry"   -> Truthy(request.industry)

C4_Passes(p) == \A r \in RuleNames : C4_Supplied(r) => C4_RuleHolds(p, r)

\* C4: the match result is exactly the candidate pool's programs for which
\* every rule whose user field was supplied holds, in the pool's order; a rule
\* whose user field was not supplied excludes no program.
C4_AsStated ==
    Answered =>
        /\ response.status = 200
        /\ response.data = SelectSeq(programs, C4_Passes)

(***************************************************************************)
(* C11: conditions none of a rule's patterns recognises                    *)
(***************************************************************************)
\* the region names of the bounded inputs: "서울", "경기", "인천", "부산", "대전"
C11_RegionNames ==
    {<<"H_seo", "H_ul">>, <<"H_gyeong", "H_gi">>, <<"H_in", "H_cheon">>, <<"H_bu", "H_san">>, <<"H_dae", "H_jeon">>}

\* every keyword of every synonym set of the industry table
C11_AllKeywords ==
    UNION { {industryKeywords[k].keywords[j] : j \in 1..Len(industryKeywords[k].keywords)} :
            k \in 1..Len(industryKeywords) }

\* the condition carries no unrestricted sentinel and none of the patterns
\* the rule recognises
C11_Unrecognised(r, cond) ==
    LET normalized == ToLowerCase(cond) IN
    CASE r = "matchCompanyAge" ->
             /\ ~Includes(normalized, <<"H_mu", "H_gwan">>)
             /\ ~Includes(normalized, <<"H_je", "H_han", "H_eops", "H_eum">>)
             /\ ~Includes(normalized, <<"H_je", "H_han", " ", "H_eops", "H_eum">>)
             /\ ~HasLimit(cond, "H_nyeon", {<<"H_mi", "H_man">>, <<"H_i", "H_nae">>, <<"H_i", "H_ha">>})
      [] r = "matchRegion" ->
             /\ ~Includes(normalized, <<"H_jeon", "H_guk">>)
             /\ ~Includes(normalized, <<"H_mu", "H_gwan">>)
             /\ ~Includes(normalized, <<"H_su", "H_do", "H_gwon">>)
             /\ \A name \in C11_RegionNames : ~Includes(cond, name)
      [] r = "matchAge" ->
             /\ ~Includes(normalized, <<"H_mu", "H_gwan">>)
             /\ ~Includes(normalized, <<"H_je", "H_han", "H_eops", "H_eum">>)
             /\ ~Includes(normalized, <<"H_je", "H_han", " ", "H_eops", "H_eum">>)
             /\ ~HasLimit(cond, "H_se", {<<"H_i", "H_ha">>, <<"H_mi", "H_man">>, <<"H_i", "H_sang">>})
             /\ ~HasRange(cond)
      [] r = "matchIndustry" ->
             /\ ~Includes(normalized, <<"H_jeon", "H_bun", "H_ya">>)
             /\ ~Includes(normalized, <<"H_jeon", "H_eop", "H_jong">>)
             /\ ~Includes(normalized, <<"H_mu", "H_gwan">>)
             /\ ~Includes(normalized, <<"H_il", "H_ban">>)
             /\ \A kw \in C11_AllKeywords : ~Includes(normalized, kw)

\* C11: for each of the four rules, a condition that contains no
\* unrestricted sentinel and none of the rule's recognised patterns is passed
\* through: the rule returns true for every user value and never raises.
C11_AsStated ==
    \A r \in RuleNames :
        (RuleCalled(r) /\ C11_Unrecognised(r, condition)) => ruleResult = "true"

(***************************************************************************)
(* JSON.parse and parseLlmResponse                                         *)
(*                                                                         *)
(* The model's output text is a sequence of lexical tokens: the six        *)
(* punctuators, string, number, true, false and null literals, and "junk"  *)
(* for anything that is no JSON token (prose, a markdown fence, a string   *)
(* cut off before its closing quote).                                      *)
(***************************************************************************)
Tok(kind) == [k |-> kind, s |-> <<>>, n |-> 0]
StrTok(chars) == [k |-> "str", s |-> chars, n |-> 0]
NumTok(v) == [k |-> "num", s |-> <<>>, n |-> v]

K_companyAge == <<"c", "o", "m", "p", "a", "n", "y", "A", "g", "e">>
K_targetRegion == <<"t", "a", "r", "g", "e", "t", "R", "e", "g", "i", "o", "n">>
K_targetAge == <<"t", "a", "r", "g", "e", "t", "A", "g", "e">>
K_targetIndustry == <<"t", "a", "r", "g", "e", "t", "I", "n", "d", "u", "s", "t", "r", "y">>
K_supportField == <<"s", "u", "p", "p", "o", "r", "t", "F", "i", "e", "l", "d">>
K_aiSummary == <<"a", "i", "S", "u", "m", "m", "a", "r", "y">>
K_targetDetail == <<"t", "a", "r", "g", "e", "t", "D", "e", "t", "a", "i", "l">>
K_exclusionDetail == <<"e", "x", "c", "l", "u", "s", "i", "o", "n", "D", "e", "t", "a", "i", "l">>

ScalarKinds == {"str", "num", "true", "false", "null"}

ScalarValue(tok) ==
    CASE tok.k = "str"   -> Str(tok.s)
      [] tok.k = "num"   -> Num(tok.n)
      [] tok.k = "true"  -> Bool(TRUE)
      [] tok.k = "false" -> Bool(FALSE)
      [] tok.k = "null"  -> JsNull

\* the value starting at token i: a scalar, or an empty array or object
\* (the member values of the texts below are never deeper than that)
HasValueAt(toks, i) ==
    /\ i <= Len(toks)
    /\ \/ toks[i].k \in ScalarKinds
       \/ i + 1 <= Len(toks) /\ toks[i].k = "[" /\ toks[i + 1].k = "]"
       \/ i + 1 <= Len(toks) /\ toks[i].k = "{" /\ toks[i + 1].k = "}"

ValueAt(toks, i) ==
    CASE toks[i].k \in ScalarKinds -> ScalarValue(toks[i])
      [] toks[i].k = "["           -> [t |-> "array", s |-> <<>>, n |-> 0]
      [] toks[i].k = "{"           -> [t |-> "object", s |-> <<>>, n |-> 0]

ValueEnd(toks, i) == IF toks[i].k \in ScalarKinds THEN i + 1 ELSE i + 2

ParseFails == [ok |-> FALSE, t |-> "none", scalar |-> Undefined, members |-> <<>>]
ParsedObject(members) == [ok |-> TRUE, t |-> "object", scalar |-> Undefined, members |-> members]

\* the members of an object from token i on: key ":" value, then "," and more
\* members, or "}" as the last token of the text
RECURSIVE ParseMembers(_, _, _)
ParseMembers(toks, i, acc) ==
    IF i + 1 <= Len(toks) /\ toks[i].k = "str" /\ toks[i + 1].k = ":" /\ HasValueAt(toks, i + 2)
    THEN LET e == ValueEnd(toks, i + 2)
             members == Append(acc, [key |-> toks[i].s, value |-> ValueAt(toks, i + 2)])
         IN IF e = Len(toks) /\ toks[e].k = "}"
            THEN ParsedObject(members)
            ELSE IF e < Len(toks) /\ toks[e].k = ","
            THEN ParseMembers(toks, e + 1, members)
            ELSE ParseFails
    ELSE ParseFails

\* JSON.parse(text): a value, or a SyntaxError (ok = FALSE)
JsonParse(toks) ==
    IF Len(toks) = 1 /\ toks[1].k \in ScalarKinds
    THEN [ok |-> TRUE, t |-> ScalarValue(toks[1]).t, scalar |-> ScalarValue(toks[1]),
          members |-> <<>>]
    ELSE IF Len(toks) = 2 /\ toks[1].k = "[" /\ toks[2].k = "]"
    THEN [ok |-> TRUE, t |-> "array", scalar |-> Undefined, members |-> <<>>]
    ELSE IF Len(toks) = 2 /\ toks[1].k = "{" /\ toks[2].k = "}"
    THEN ParsedObject(<<>>)
    ELSE IF Len(toks) > 2 /\ toks[1].k = "{"
    THEN ParseMembers(toks, 2, <<>>)
    ELSE ParseFails

\* parsed.key: the last member of that name; undefined when there is none or
\* when parsed is an array, a string, a number or a boolean
GetProp(parsed, key) ==
    LET hits == {j \in 1..Len(parsed.members) : parsed.members[j].key = key} IN
    IF hits = {} THEN Undefined
    ELSE parsed.members[CHOOSE j \in hits : \A m \in hits : m <= j].value

\* ToBoolean
JsTruthy(v) ==
    CASE v.t = "string"  -> v.s # <<>>
      [] v.t = "number"  -> v.n # 0
      [] v.t = "boolean" -> v.n = 1
      [] v.t \in {"undefined", "null"} -> FALSE
      [] OTHER -> TRUE

\* the four defaults without the fallback: value || '' in place of
\* value || sentinel
OrElse_Blank(v, default) == IF JsTruthy(v) THEN v ELSE Str(<<>>)

\* v || default
OrElse(v, default) == IF JsTruthy(v) THEN v ELSE default

\* the catch branch of parseLlmResponse
EmptyFallback ==
    [companyAge |-> Str(<<>>), targetRegion |-> Str(<<>>), targetAge |-> Str(<<>>),
     targetIndustry |-> Str(<<>>), supportField |-> Str(<<>>), aiSummary |-> Undefined,
     targetDetail |-> Undefined, exclusionDetail |-> Undefined]

\* JSON.parse throws on a malformed text, and reading a property of the
\* parsed value throws when that value is null: both end in the catch branch
parseLlmResponse(text) ==
    LET parsed == JsonParse(text) IN
    IF ~parsed.ok \/ parsed.t = "null"
    THEN EmptyFallback
    ELSE [companyAge      |-> OrElse(GetProp(parsed, K_companyAge), Str(W_mugwan)),
          targetRegion    |-> OrElse(GetProp(parsed, K_targetRegion), Str(W_jeonguk)),
          targetAge       |-> OrElse(GetProp(parsed, K_targetAge), Str(W_mugwan)),
          targetIndustry  |-> OrElse(GetProp(parsed, K_targetIndustry), Str(W_jeonbunya)),
          supportField    |-> OrElse(GetProp(parsed, K_supportField), Str(<<>>)),
          aiSummary       |-> GetProp(parsed, K_aiSummary),
          targetDetail    |-> GetProp(parsed, K_targetDetail),
          exclusionDetail |-> GetProp(parsed, K_exclusionDetail)]

(***************************************************************************)
(* extractTargetFromImage and extractApplicationTarget                     *)
(***************************************************************************)
\* !process.env.GEMINI_API_KEY is never true: the credential check left out
KeyConfigured_Always(key) == TRUE

\* process.env.GEMINI_API_KEY is set
KeyConfigured(key) == key

\* Array.isArray(images) ? images : [images]
\* (a single image is held as the one element of `images`, isArray FALSE)
ImageList(input) == IF input.isArray THEN input.images ELSE <<input.images[1]>>

\* imageList.map with the list walked from its end
ImageParts_Reversed(imageList, mimeType) ==
    [i \in 1..Len(imageList) |->
        [kind |-> "inlineData", data |-> imageList[Len(imageList) + 1 - i], mimeType |-> mimeType]]

\* imageList.map(img => ({ inlineData: { data: img, mimeType } }))
ImageParts(imageList, mimeType) ==
    [i \in 1..Len(imageList) |->
        [kind |-> "inlineData", data |-> imageList[i], mimeType |-> mimeType]]

TextPart(input) == [kind |-> "text", prompt |-> "EXTRACTION_PROMPT", input |-> input]

JoinSeparator == <<"\n", "\n", "-", "-", "-", "\n", "\n">>

\* [eligibilityText, descriptionText].filter(Boolean).join('\n\n---\n\n')
InputText(eligibilityText, descriptionText) ==
    IF Truthy(eligibilityText) /\ Truthy(descriptionText)
    THEN eligibilityText \o JoinSeparator \o descriptionText
    ELSE IF Truthy(eligibilityText) THEN eligibilityText
    ELSE IF Truthy(descriptionText) THEN descriptionText
    ELSE <<>>

\* the ways generateContent, or reading result.response.text(), can throw
ModelFailures == {"network", "timeout", "rejected", "blocked"}

\* extractTargetFromImage up to the await of generateContent
ExtractImageBegin ==
    /\ extractor = "image" /\ epc = "called"
    /\ IF ~KeyConfigured(apiKey)
       THEN /\ extractResult' = ReturnsNull
            /\ epc' = "returned"
            /\ UNCHANGED <<llmRequest, modelCalls>>
       ELSE /\ llmRequest' = ImageParts(ImageList(llmInput), llmInput.mimeType)
                                 \o <<TextPart(<<>>)>>
            /\ modelCalls' = modelCalls + 1
            /\ epc' = "awaiting"
            /\ UNCHANGED extractResult
    /\ UNCHANGED <<apiKey, extractor, llmInput, llmReply, nonExtractVars>>

\* extractApplicationTarget up to the await of generateContent
ExtractTextBegin ==
    /\ extractor = "text" /\ epc = "called"
    /\ IF ~KeyConfigured(apiKey)
       THEN /\ extractResult' = ReturnsNull
            /\ epc' = "returned"
            /\ UNCHANGED <<llmRequest, modelCalls>>
       ELSE IF ~Truthy(llmInput.eligibilityText) /\ ~Truthy(llmInput.descriptionText)
       THEN /\ extractResult' = ReturnsNull
            /\ epc' = "returned"
            /\ UNCHANGED <<llmRequest, modelCalls>>
       ELSE /\ llmRequest' =
                  <<TextPart(InputText(llmInput.eligibilityText, llmInput.descriptionText))>>
            /\ modelCalls' = modelCalls + 1
            /\ epc' = "awaiting"
            /\ UNCHANGED extractResult
    /\ UNCHANGED <<apiKey, extractor, llmInput, llmReply, nonExtractVars>>

(***************************************************************************)
(* The texts the model may answer with                                     *)
(***************************************************************************)
MaxImages == 3

\* a field of the answer: left out, null, "", " ", "7년 미만" or the number 0
FieldTokens ==
    {Tok("absent"), Tok("null"), StrTok(<<>>), StrTok(<<" ">>),
     StrTok(<<"7", "H_nyeon", " ", "H_mi", "H_man">>), NumTok(0)}

\* supportField: left out or "자금"
SupportTokens == {Tok("absent"), StrTok(<<"H_ja", "H_geum">>)}

AnswerKeys == <<K_companyAge, K_targetRegion, K_targetAge, K_targetIndustry, K_supportField>>

\* the members of the object, in key order, a field that is left out skipped
RECURSIVE MemberTokens(_, _)
MemberTokens(toks, i) ==
    IF i > Len(AnswerKeys) THEN <<>>
    ELSE LET rest == MemberTokens(toks, i + 1)
             this == <<StrTok(AnswerKeys[i]), Tok(":"), toks[i]>>
         IN IF toks[i].k = "absent" THEN rest
            ELSE IF rest = <<>> THEN this
            ELSE this \o <<Tok(",")>> \o rest

ObjectText(toks) == <<Tok("{")>> \o MemberTokens(toks, 1) \o <<Tok("}")>>

ObjectTexts ==
    { ObjectText(<<a, b, c, d, e>>) :
        a \in FieldTokens, b \in FieldTokens, c \in FieldTokens, d \in FieldTokens,
        e \in SupportTokens }

\* a full answer, for the texts built around one
SampleAnswer ==
    ObjectText(<<StrTok(<<"7", "H_nyeon", " ", "H_mi", "H_man">>), StrTok(<<"H_seo", "H_ul">>), StrTok(<<"H_mu", "H_gwan">>),
                 StrTok(<<"S", "W">>), StrTok(<<"H_ja", "H_geum">>)>>)

\* texts that are valid JSON without being a flat answer object: null, 5,
\* "text", true, [], and an object with a repeated key and a nested value
OtherJsonTexts ==
    {<<Tok("null")>>, <<NumTok(5)>>, <<StrTok(<<"o", "k">>)>>, <<Tok("true")>>,
     <<Tok("["), Tok("]")>>,
     <<Tok("{"), StrTok(K_companyAge), Tok(":"), StrTok(<<>>), Tok(","),
       StrTok(K_companyAge), Tok(":"), StrTok(<<"3", "H_nyeon", " ", "H_mi", "H_man">>), Tok(","),
       StrTok(K_targetRegion), Tok(":"), Tok("["), Tok("]"), Tok("}")>>}

\* texts JSON.parse rejects: the empty text, prose, an answer inside a
\* markdown fence, an answer cut off, a trailing comma, a missing colon,
\* text after the closing brace
MalformedTexts ==
    {<<>>,
     <<Tok("junk")>>,
     <<Tok("junk")>> \o SampleAnswer \o <<Tok("junk")>>,
     SubSeq(SampleAnswer, 1, 3),
     SubSeq(SampleAnswer, 1, Len(SampleAnswer) - 1),
     <<Tok("{"), StrTok(K_companyAge), Tok(":"), StrTok(<<"H_mu", "H_gwan">>), Tok(","), Tok("}")>>,
     <<Tok("{"), StrTok(K_companyAge), StrTok(<<"H_mu", "H_gwan">>), Tok("}")>>,
     SampleAnswer \o <<Tok("}")>>}

LlmTexts == ObjectTexts \cup OtherJsonTexts \cup MalformedTexts

\* the answers tried when the extractor is called from a page pipeline: a
\* full answer, an empty object, prose
PipelineTexts == {SampleAnswer, <<Tok("{"), Tok("}")>>, <<Tok("junk")>>}

ReplyTexts == IF site = "none" THEN LlmTexts ELSE PipelineTexts

\* generateContent resolves and result.response.text() is parsed
ModelReplies ==
    /\ epc = "awaiting"
    /\ \E text \in ReplyTexts :
         /\ llmReply' = [kind |-> "text", text |-> text]
         /\ extractResult' = ReturnsTarget(parseLlmResponse(text))
    /\ epc' = "returned"
    /\ UNCHANGED <<apiKey, extractor, llmInput, llmRequest, modelCalls, nonExtractVars>>

\* generateContent rejects, or text() throws: the catch returns null
ModelFails ==
    /\ epc = "awaiting"
    /\ \E kind \in ModelFailures : llmReply' = [kind |-> kind, text |-> <<>>]
    /\ extractResult' = ReturnsNull
    /\ epc' = "returned"
    /\ UNCHANGED <<apiKey, extractor, llmInput, llmRequest, modelCalls, nonExtractVars>>

\* chunks as the capture loops produce them
SampleChunks == {[y |-> 0, height |-> 3000], [y |-> 3000, height |-> 3000]}

\* the images argument: one image, or an array of up to MaxImages images
ImageInputs ==
    {[isArray |-> FALSE, images |-> <<c>>, mimeType |-> "image/jpeg"] : c \in SampleChunks}
    \cup {[isArray |-> TRUE, images |-> imgs, mimeType |-> "image/jpeg"] :
            imgs \in UNION {[1..n -> SampleChunks] : n \in 0..MaxImages}}

\* eligibilityText: "" or a text; descriptionText: undefined, "" or a text
TextInputs ==
    {[eligibilityText |-> e, descriptionText |-> d] :
        e \in {<<>>, <<"7", "H_nyeon", " ", "H_mi", "H_man">>}, d \in {Null, <<>>, <<"H_ja", "H_geum", " ", "H_ji", "H_won">>}}

InitExtract ==
    /\ CaptureIdle /\ RulesIdle /\ MatchIdle /\ PipeIdle /\ CrawlIdle /\ SearchIdle
    /\ apiKey \in BOOLEAN
    /\ \/ extractor = "image" /\ llmInput \in ImageInputs
       \/ extractor = "text" /\ llmInput \in TextInputs
    /\ epc = "called"
    /\ llmRequest = <<>>
    /\ modelCalls = 0
    /\ llmReply = NoReply
    /\ extractResult = Pending

ExtractNext ==
    \/ ExtractImageBegin
    \/ ExtractTextBegin
    \/ ModelReplies
    \/ ModelFails

SpecExtract == InitExtract /\ [][ExtractNext]_vars

(***************************************************************************)
(* C12 - C14: the extractor                                                *)
(***************************************************************************)
\* C12: extractTargetFromImage and extractApplicationTarget never raise to
\* their caller; without the credential they return null and call the model
\* not once; when the model call fails (network error, timeout, rejected
\* request, unreadable response) they return null, the same for each failure.
C12_NeverRaises ==
    /\ epc \in {"idle", "called", "awaiting", "returned"}
    /\ (extractor # "none" /\ ~apiKey) =>
          /\ modelCalls = 0
          /\ llmRequest = <<>>
          /\ epc = "returned" => extractResult = [kind |-> "null", target |-> NoTarget]
    /\ (epc = "returned" /\ llmReply.kind \in {"network", "timeout", "rejected", "blocked"}) =>
          extractResult = [kind |-> "null", target |-> NoTarget]

\* the image extractor came back with null from a model call that timed out
C12_Witness ==
    /\ extractor = "image" /\ epc = "returned"
    /\ apiKey /\ modelCalls = 1
    /\ llmReply.kind = "timeout"
    /\ extractResult.kind = "null"

C13_IsJsonObject(text) == JsonParse(text).ok /\ JsonParse(text).t = "object"

\* C13: when the model's output text cannot be parsed as a JSON object, the
\* extractor returns a result whose fields are the permissive defaults
\* ("무관", "전국", "무관", "전분야"), never blank strings.
C13_AsStated ==
    (epc = "returned" /\ llmReply.kind = "text" /\ ~C13_IsJsonObject(llmReply.text)) =>
        /\ extractResult.kind = "target"
        /\ extractResult.target.companyAge = Str(<<"H_mu", "H_gwan">>)
        /\ extractResult.target.targetRegion = Str(<<"H_jeon", "H_guk">>)
        /\ extractResult.target.targetAge = Str(<<"H_mu", "H_gwan">>)
        /\ extractResult.target.targetIndustry = Str(<<"H_jeon", "H_bun", "H_ya">>)

\* one field of the result against the same field of the parsed answer
C14_FieldOk(given, returned, sentinel) ==
    /\ given \in {Undefined, JsNull, Str(<<>>)} => returned = Str(sentinel)
    /\ (given.t = "string" /\ given.s # <<>>) => returned = given
    /\ returned # Str(<<>>)

\* C14: when the model's output parses as a JSON object, each of companyAge,
\* targetRegion, targetAge and targetIndustry that is missing or empty in it
\* is replaced by its sentinel ("무관", "전국", "무관", "전분야"), every
\* non-empty string is returned unchanged, and none of the four is blank.
C14_FieldsDefaulted ==
    (epc = "returned" /\ llmReply.kind = "text" /\ C13_IsJsonObject(llmReply.text)) =>
        LET parsed == JsonParse(llmReply.text)
            target == extractResult.target
        IN /\ extractResult.kind = "target"
           /\ C14_FieldOk(GetProp(parsed, K_companyAge), target.companyAge, <<"H_mu", "H_gwan">>)
           /\ C14_FieldOk(GetProp(parsed, K_targetRegion), target.targetRegion, <<"H_jeon", "H_guk">>)
           /\ C14_FieldOk(GetProp(parsed, K_targetAge), target.targetAge, <<"H_mu", "H_gwan">>)
           /\ C14_FieldOk(GetProp(parsed, K_targetIndustry), target.targetIndustry, <<"H_jeon", "H_bun", "H_ya">>)

\* an answer {"companyAge": "7년 미만", "targetAge": ""}: the first field is
\* kept, the empty and the two missing ones are replaced
C14_Witness ==
    /\ epc = "returned" /\ llmReply.kind = "text"
    /\ llmReply.text = <<Tok("{"), StrTok(K_companyAge), Tok(":"), StrTok(<<"7", "H_nyeon", " ", "H_mi", "H_man">>), Tok(","),
                         StrTok(K_targetAge), Tok(":"), StrTok(<<>>), Tok("}")>>
    /\ extractResult.target.companyAge = Str(<<"7", "H_nyeon", " ", "H_mi", "H_man">>)
    /\ extractResult.target.targetRegion = Str(<<"H_jeon", "H_guk">>)
    /\ extractResult.target.targetAge = Str(<<"H_mu", "H_gwan">>)
    /\ extractResult.target.targetIndustry = Str(<<"H_jeon", "H_bun", "H_ya">>)

(***************************************************************************)
(* processBizinfoPage: the whole pipeline of one announcement              *)
(***************************************************************************)
BIZ_MAX_WAIT_TIME == 15000
BIZ_CHECK_INTERVAL == 500
\* a setTimeout may fire this many ms late
MaxTimerLag == 500

\* content heights a viewer may report
PipelineHeights == {0, 1500, 3050, 6000, 9001, 20200}

M_dxviewer == <<"d", "x", "v", "i", "e", "w", "e", "r">>
M_synap == <<"s", "y", "n", "a", "p">>
M_pdf == <<"p", "d", "f">>

\* f.url().includes('dxviewer') || f.url().includes('synap') || f.url().includes('pdf')
IsViewerUrl(url) ==
    Includes(url, M_dxviewer) \/ Includes(url, M_synap) \/ Includes(url, M_pdf)

\* frames.find taking the last frame that matches
FindViewer_Last(fs) ==
    LET hits == {i \in 1..Len(fs) : IsViewerUrl(fs[i])} IN
    IF hits = {} THEN 0 ELSE CHOOSE i \in hits : \A j \in hits : j <= i

\* frames.find(...): the position of the first frame that matches, 0 for undefined
FindViewer(fs) ==
    LET hits == {i \in 1..Len(fs) : IsViewerUrl(fs[i])} IN
    IF hits = {} THEN 0 ELSE CHOOSE i \in hits : \A j \in hits : i <= j

U_main == <<"/", "v", "i", "e", "w", ".", "d", "o">>
U_banner == <<"/", "b", "a", "n", "n", "e", "r">>
U_dxviewer == <<"/", "d", "x", "v", "i", "e", "w", "e", "r", "/", "v">>
U_synap == <<"/", "s", "y", "n", "a", "p", "v", "i", "e", "w">>
U_pdf == <<"/", "a", ".", "p", "d", "f">>
U_PDF == <<"/", "A", ".", "P", "D", "F">>

\* what page.frames() may hold at a poll: the main frame first
FrameLists ==
    {<<U_main>>, <<U_main, U_banner>>, <<U_main, U_PDF>>,
     <<U_main, U_dxviewer>>, <<U_main, U_banner, U_synap, U_dxviewer>>,
     <<U_main, U_pdf, U_synap>>, <<U_main, U_PDF, U_pdf>>}

\* the catch of the function: return null, then the finally block
CatchReturnsNull ==
    /\ returnValue' = ReturnsNull
    /\ cpc' = "finally"

\* browser.newPage() and page.setViewport()
BizNewPage ==
    /\ site = "none" /\ cpc = "idle"
    /\ site' = "bizinfo"
    /\ \/ page' = "open" /\ cpc' = "goto" /\ UNCHANGED returnValue
       \/ page' = "none" /\ CatchReturnsNull
       \/ page' = "open" /\ CatchReturnsNull
    /\ UNCHANGED <<bodyHeight, finalHeight, capturedHeight, screenshots>>
    /\ UNCHANGED <<viewerPage, dom, elapsed, frames, viewerFrame, outcome, stageVars>>
    /\ UNCHANGED <<extractVars, nonPipelineVars>>

\* page.goto(); a time-out of waitForSelector('.view_cont') is only logged
BizGoto ==
    /\ site = "bizinfo" /\ cpc = "goto"
    /\ \/ /\ cpc' = "scan"
          /\ dom' \in SUBSET {".view_cont", "body"}
          /\ UNCHANGED returnValue
       \/ CatchReturnsNull /\ UNCHANGED dom
    /\ elapsed' = 0
    /\ UNCHANGED <<site, bodyHeight, finalHeight, capturedHeight, screenshots>>
    /\ UNCHANGED <<page, viewerPage, frames, viewerFrame, outcome, stageVars>>
    /\ UNCHANGED <<extractVars, nonPipelineVars>>

\* one pass of the scan loop: look at the frames, leave on a match, else
\* sleep; startTime is not read again once a viewer is found
BizScanPoll ==
    /\ site = "bizinfo" /\ cpc = "scan"
    /\ elapsed < BIZ_MAX_WAIT_TIME
    /\ \E fs \in FrameLists :
         /\ frames' = fs
         /\ viewerFrame' = FindViewer(fs)
         /\ IF FindViewer(fs) # 0
            THEN cpc' = "viewer" /\ elapsed' = 0
            ELSE /\ cpc' = "scan"
                 /\ \E lag \in {0, MaxTimerLag} : elapsed' = elapsed + BIZ_CHECK_INTERVAL + lag
    /\ UNCHANGED <<site, bodyHeight, finalHeight, capturedHeight, screenshots>>
    /\ UNCHANGED <<page, viewerPage, dom, returnValue, outcome, stageVars>>
    /\ UNCHANGED <<extractVars, nonPipelineVars>>

\* the while condition is false: the scan ends with viewerFrame undefined
BizScanDeadline ==
    /\ site = "bizinfo" /\ cpc = "scan"
    /\ ~(elapsed < BIZ_MAX_WAIT_TIME)
    /\ cpc' = "afterViewer"
    /\ UNCHANGED <<site, bodyHeight, finalHeight, capturedHeight, screenshots>>
    /\ UNCHANGED <<pipeVars, extractVars, nonPipelineVars>>

\* what the viewer frame shows when the readiness wait ends: its img
\* elements and the length of document.body.innerText
ViewerImages ==
    {<<>>,
     <<[complete |-> TRUE, naturalHeight |-> 40]>>,
     <<[complete |-> TRUE, naturalHeight |-> 40], [complete |-> TRUE, naturalHeight |-> 0]>>,
     <<[complete |-> FALSE, naturalHeight |-> 0]>>}
ViewerTextLengths == {0, 100, 101}
ViewerContents == [images : ViewerImages, textLength : ViewerTextLengths]

\* the readiness condition with the two tests joined by ||
ReadyCondition_Or(content) ==
    \/ \A i \in 1..Len(content.images) :
          content.images[i].complete /\ content.images[i].naturalHeight > 0
    \/ content.textLength > 100

\* the function waitForFunction polls: allImagesLoaded && hasContent
ReadyCondition(content) ==
    /\ \A i \in 1..Len(content.images) :
          content.images[i].complete /\ content.images[i].naturalHeight > 0
    /\ content.textLength > 100

\* the time-out of the readiness wait thrown on to the catch of the viewer block
AfterReadiness_Rethrow(result) == IF result = "timeout" THEN "afterViewer" ELSE "measure"

\* where control goes after the readiness wait: the catch around
\* waitForFunction is empty but for a warning, so to the height measurement
AfterReadiness(result) == "measure"

\* waitForSelector('body') in the viewer frame, then the readiness wait: the
\* condition is met within 20 s, or waitForFunction rejects with a time-out
\* on the content rendered so far
BizViewerWait ==
    /\ site = "bizinfo" /\ cpc = "viewer"
    /\ \/ cpc' = "afterViewer" /\ UNCHANGED readiness
       \/ \E content \in ViewerContents :
            LET result == IF ReadyCondition(content) THEN "ready" ELSE "timeout" IN
            /\ readiness' = [content |-> content, result |-> result]
            /\ cpc' = AfterReadiness(result)
    /\ UNCHANGED <<site, bodyHeight, finalHeight, capturedHeight, screenshots>>
    /\ UNCHANGED <<page, viewerPage, dom, elapsed, frames, viewerFrame, returnValue, outcome>>
    /\ UNCHANGED <<attachments, viewButtonSelector, clicked>>
    /\ UNCHANGED <<extractVars, nonPipelineVars>>

\* the viewer block from the height measurement to the capture loop: the two
\* evaluate calls, setViewport and $('body'); a rejection of any of them is
\* caught by the block's catch, a missing body element skips the loop
BizViewerPrepare ==
    /\ site = "bizinfo" /\ cpc = "measure"
    /\ \/ cpc' = "afterViewer" /\ UNCHANGED <<bodyHeight, finalHeight>>
       \/ \E h \in PipelineHeights :
            /\ bodyHeight' = h
            /\ finalHeight' = BizFinalHeight(h)
            /\ cpc' \in {"afterViewer", "loop"}
    /\ capturedHeight' = 0
    /\ UNCHANGED <<site, screenshots>>
    /\ UNCHANGED <<pipeVars, extractVars, nonPipelineVars>>

\* await extractTargetFromImage(screenshots, 'image/jpeg'): the call
ExtractCall(shots) ==
    /\ extractor' = "image"
    /\ llmInput' = [isArray |-> TRUE, images |-> shots, mimeType |-> "image/jpeg"]
    /\ epc' = "called"
    /\ UNCHANGED <<apiKey, llmRequest, modelCalls, llmReply, extractResult>>

\* page.$('.view_cont') || page.$('body'): "" when neither exists
ContentElement(d) ==
    IF ".view_cont" \in d THEN ".view_cont" ELSE IF "body" \in d THEN "body" ELSE ""

\* the unclipped screenshot of the content element
ElementShot(element) == [y |-> 0, height |-> 0, element |-> element]

\* if (screenshots.length === 0) throw ...; else the extractor is called
BizSubmit(shots) ==
    /\ screenshots' = shots
    /\ IF Len(shots) = 0
       THEN CatchReturnsNull /\ UNCHANGED extractVars
       ELSE cpc' = "extract" /\ ExtractCall(shots) /\ UNCHANGED returnValue

\* from the end of the viewer block to the extractor call: the fallback
\* capture, taken only when no viewer frame was found, and the empty check
BizFallback ==
    /\ site = "bizinfo" /\ cpc \in {"afterViewer", "done", "threw"}
    /\ \/ viewerFrame # 0 /\ BizSubmit(screenshots)
       \/ /\ viewerFrame = 0
          /\ IF ContentElement(dom) = ""
             THEN BizSubmit(screenshots)
             ELSE \/ BizSubmit(Append(screenshots, ElementShot(ContentElement(dom))))
                  \/ CatchReturnsNull /\ UNCHANGED <<screenshots, extractVars>>
    /\ UNCHANGED <<site, bodyHeight, finalHeight, capturedHeight>>
    /\ UNCHANGED <<page, viewerPage, dom, elapsed, frames, viewerFrame, outcome, stageVars>>
    /\ UNCHANGED nonPipelineVars

\* the awaited extractor has returned: return applicationTarget
PipelineReturn ==
    /\ cpc = "extract" /\ epc = "returned"
    /\ returnValue' = extractResult
    /\ cpc' = "finally"
    /\ UNCHANGED <<site, bodyHeight, finalHeight, capturedHeight, screenshots>>
    /\ UNCHANGED <<page, viewerPage, dom, elapsed, frames, viewerFrame, outcome, stageVars>>
    /\ UNCHANGED <<extractVars, nonPipelineVars>>

\* finally { if (page) await page.close() }: a rejection of close() leaves
\* the function through the finally block, the tab closed or not
BizFinally ==
    /\ site = "bizinfo" /\ cpc = "finally"
    /\ \/ page = "none" /\ outcome' = "returned" /\ UNCHANGED page
       \/ page = "open" /\ page' = "closed" /\ outcome' = "returned"
       \/ page = "open" /\ outcome' = "raised" /\ page' \in {"open", "closed"}
    /\ cpc' = "end"
    /\ UNCHANGED <<site, bodyHeight, finalHeight, capturedHeight, screenshots>>
    /\ UNCHANGED <<viewerPage, dom, elapsed, frames, viewerFrame, returnValue, stageVars>>
    /\ UNCHANGED <<extractVars, nonPipelineVars>>

(***************************************************************************)
(* processKStartupPage: the whole pipeline of one announcement             *)
(***************************************************************************)
\* browser.newPage() and page.setViewport()
KsNewPage ==
    /\ site = "none" /\ cpc = "idle"
    /\ site' = "kstartup"
    /\ \/ page' = "open" /\ cpc' = "goto" /\ UNCHANGED returnValue
       \/ page' = "none" /\ CatchReturnsNull
       \/ page' = "open" /\ CatchReturnsNull
    /\ UNCHANGED <<bodyHeight, finalHeight, capturedHeight, screenshots>>
    /\ UNCHANGED <<viewerPage, dom, elapsed, frames, viewerFrame, outcome, stageVars>>
    /\ UNCHANGED <<extractVars, nonPipelineVars>>

\* page.goto()
KsGoto ==
    /\ site = "kstartup" /\ cpc = "goto"
    /\ \/ cpc' = "fileList" /\ UNCHANGED returnValue
       \/ CatchReturnsNull
    /\ UNCHANGED <<site, bodyHeight, finalHeight, capturedHeight, screenshots>>
    /\ UNCHANGED <<page, viewerPage, dom, elapsed, frames, viewerFrame, outcome, stageVars>>
    /\ UNCHANGED <<extractVars, nonPipelineVars>>

MaxAttachments == 2

\* the text of an attachment item: "공고문.pdf", "신청서.hwp", "모집 안내"
AttachmentLabels ==
    {<<"H_gong", "H_go", "H_mun", ".", "p", "d", "f">>, <<"H_sin", "H_cheong", "H_seo", ".", "h", "w", "p">>, <<"H_mo", "H_jip", " ", "H_an", "H_nae">>}

\* an item of '.board_file ul li': its text, and whether it holds a '.btn_view'
AttachmentItems == [label : AttachmentLabels, hasButton : BOOLEAN]

AttachmentLists == UNION {[1..n -> AttachmentItems] : n \in 0..MaxAttachments}

\* text.includes('공고') || text.includes('모집') || text.includes('안내')
HasKeyword(text) ==
    Includes(text, <<"H_gong", "H_go">>) \/ Includes(text, <<"H_mo", "H_jip">>) \/ Includes(text, <<"H_an", "H_nae">>)

\* links.find(keyword) with links[0] in its place when it finds none:
\* the position of targetLink, 0 for undefined
TargetLink(links) ==
    LET hits == {i \in 1..Len(links) : HasKeyword(links[i].label)} IN
    IF hits # {} THEN CHOOSE i \in hits : \A j \in hits : i <= j
    ELSE IF Len(links) > 0 THEN 1 ELSE 0

\* the evaluate callback: allBtns.indexOf(targetLink.querySelector('.btn_view')),
\* counted from 0; -1 when there is no item or the item holds no button
ViewButtonIndex(links) ==
    LET t == TargetLink(links) IN
    IF t = 0 THEN 0 - 1
    ELSE IF ~links[t].hasButton THEN 0 - 1
    ELSE Cardinality({j \in 1..(t - 1) : links[j].hasButton})

\* waitForSelector('.board_file'): a time-out returns null
KsFileList ==
    /\ site = "kstartup" /\ cpc = "fileList"
    /\ \/ /\ attachments' \in AttachmentLists
          /\ cpc' = "locate"
          /\ UNCHANGED returnValue
       \/ CatchReturnsNull /\ UNCHANGED attachments
    /\ UNCHANGED <<site, bodyHeight, finalHeight, capturedHeight, screenshots>>
    /\ UNCHANGED <<page, viewerPage, dom, elapsed, frames, viewerFrame, outcome>>
    /\ UNCHANGED <<readiness, viewButtonSelector, clicked>>
    /\ UNCHANGED <<extractVars, nonPipelineVars>>

\* page.evaluate of the button index: a rejection is caught, index -1
\* returns null
KsLocate ==
    /\ site = "kstartup" /\ cpc = "locate"
    /\ \/ /\ viewButtonSelector' = <<ViewButtonIndex(attachments)>>
          /\ IF ViewButtonIndex(attachments) = 0 - 1
             THEN CatchReturnsNull
             ELSE cpc' = "click" /\ UNCHANGED returnValue
       \/ CatchReturnsNull /\ UNCHANGED viewButtonSelector
    /\ UNCHANGED <<site, bodyHeight, finalHeight, capturedHeight, screenshots>>
    /\ UNCHANGED <<page, viewerPage, dom, elapsed, frames, viewerFrame, outcome>>
    /\ UNCHANGED <<readiness, attachments, clicked>>
    /\ UNCHANGED <<extractVars, nonPipelineVars>>

\* browser.waitForTarget is set up, page.$$('.btn_view') and the click on
\* buttons[viewButtonSelector]: a rejection of $$ or of click() is caught and
\* no element at the index returns null; else the one button is clicked
KsClickViewer ==
    /\ site = "kstartup" /\ cpc = "click"
    /\ \/ /\ clicked' = Append(clicked, viewButtonSelector[1])
          /\ cpc' = "newTarget"
          /\ UNCHANGED returnValue
       \/ CatchReturnsNull /\ UNCHANGED clicked
    /\ UNCHANGED <<site, bodyHeight, finalHeight, capturedHeight, screenshots>>
    /\ UNCHANGED <<page, viewerPage, dom, elapsed, frames, viewerFrame, outcome>>
    /\ UNCHANGED <<readiness, attachments, viewButtonSelector>>
    /\ UNCHANGED <<extractVars, nonPipelineVars>>

\* await newTargetPromise, newTarget.page() and waitForSelector('body'): the
\* target never appears (rejection), it has no page (return null), the
\* viewer's body never loads (rejection, the viewer page is open), or the
\* viewer is ready
KsOpenViewer ==
    /\ site = "kstartup" /\ cpc = "newTarget"
    /\ \/ viewerPage' = "none" /\ CatchReturnsNull
       \/ viewerPage' = "open" /\ CatchReturnsNull
       \/ viewerPage' = "open" /\ cpc' = "viewer" /\ UNCHANGED returnValue
    /\ UNCHANGED <<site, bodyHeight, finalHeight, capturedHeight, screenshots>>
    /\ UNCHANGED <<page, dom, elapsed, frames, viewerFrame, outcome, stageVars>>
    /\ UNCHANGED <<extractVars, nonPipelineVars>>

\* scrollHeight, limitHeight and setViewport; a rejection is caught
KsViewerMeasure ==
    /\ site = "kstartup" /\ cpc = "viewer"
    /\ \/ CatchReturnsNull /\ UNCHANGED <<bodyHeight, finalHeight>>
       \/ \E h \in PipelineHeights :
            /\ bodyHeight' = h
            /\ finalHeight' = KsLimitHeight(h)
            /\ \/ cpc' = "loop" /\ UNCHANGED returnValue
               \/ CatchReturnsNull
    /\ capturedHeight' = 0
    /\ UNCHANGED <<site, screenshots>>
    /\ UNCHANGED <<page, viewerPage, dom, elapsed, frames, viewerFrame, outcome, stageVars>>
    /\ UNCHANGED <<extractVars, nonPipelineVars>>

\* after the loop: a rejection inside it is caught (null), no screenshot
\* returns null, else the extractor is called
KsSubmit ==
    /\ site = "kstartup" /\ cpc \in {"done", "threw"}
    /\ IF cpc = "threw" \/ Len(screenshots) = 0
       THEN CatchReturnsNull /\ UNCHANGED extractVars
       ELSE cpc' = "extract" /\ ExtractCall(screenshots) /\ UNCHANGED returnValue
    /\ UNCHANGED <<site, bodyHeight, finalHeight, capturedHeight, screenshots>>
    /\ UNCHANGED <<page, viewerPage, dom, elapsed, frames, viewerFrame, outcome, stageVars>>
    /\ UNCHANGED nonPipelineVars

\* finally { if (viewerPage) await viewerPage.close();
\*           if (page) await page.close(); }
\* a rejection of either close() leaves the function with that tab closed
\* or not, the first one before page.close() is reached
KsFinally ==
    /\ site = "kstartup" /\ cpc = "finally"
    /\ \/ /\ viewerPage' = IF viewerPage = "open" THEN "closed" ELSE viewerPage
          /\ page' = IF page = "open" THEN "closed" ELSE page
          /\ outcome' = "returned"
       \/ /\ viewerPage = "open"
          /\ outcome' = "raised"
          /\ viewerPage' \in {"open", "closed"}
          /\ UNCHANGED page
       \/ /\ page = "open"
          /\ viewerPage' = IF viewerPage = "open" THEN "closed" ELSE viewerPage
          /\ outcome' = "raised"
          /\ page' \in {"open", "closed"}
    /\ cpc' = "end"
    /\ UNCHANGED <<site, bodyHeight, finalHeight, capturedHeight, screenshots>>
    /\ UNCHANGED <<dom, elapsed, frames, viewerFrame, returnValue, stageVars>>
    /\ UNCHANGED <<extractVars, nonPipelineVars>>

InitPipeline ==
    /\ CaptureIdle /\ RulesIdle /\ MatchIdle /\ PipeIdle /\ CrawlIdle /\ SearchIdle
    /\ apiKey \in BOOLEAN
    /\ extractor = "none"
    /\ epc = "idle"
    /\ llmInput = <<>>
    /\ llmRequest = <<>>
    /\ modelCalls = 0
    /\ llmReply = NoReply
    /\ extractResult = Pending

PipelineNext ==
    \/ BizNewPage
    \/ BizGoto
    \/ BizScanPoll
    \/ BizScanDeadline
    \/ BizViewerWait
    \/ BizViewerPrepare
    \/ BizCaptureChunk
    \/ BizCaptureFail
    \/ BizLoopExit
    \/ BizFallback
    \/ BizFinally
    \/ KsNewPage
    \/ KsGoto
    \/ KsFileList
    \/ KsLocate
    \/ KsClickViewer
    \/ KsOpenViewer
    \/ KsViewerMeasure
    \/ KsCaptureChunk
    \/ KsCaptureFail
    \/ KsLoopExit
    \/ KsSubmit
    \/ KsFinally
    \/ ExtractImageBegin
    \/ ModelReplies
    \/ ModelFails
    \/ PipelineReturn

SpecPipeline == InitPipeline /\ [][PipelineNext]_vars

(***************************************************************************)
(* C15, C18 - C20: the page pipelines                                      *)
(***************************************************************************)
\* C15: within one announcement the chunks are captured at strictly
\* ascending offsets, and the request sent to the model carries them in the
\* capture order: its i-th image part is the i-th captured chunk, none
\* dropped, duplicated or reordered, and the instruction text comes last.
C15_ChunkOrder ==
    /\ \A i \in 1..(Len(screenshots) - 1) : screenshots[i].y < screenshots[i + 1].y
    /\ (site # "none" /\ modelCalls > 0) =>
          /\ Len(llmRequest) = Len(screenshots) + 1
          /\ \A i \in 1..Len(screenshots) :
                /\ llmRequest[i].kind = "inlineData"
                /\ llmRequest[i].data = screenshots[i]
          /\ llmRequest[Len(llmRequest)].kind = "text"

\* a Bizinfo request that carries three chunks, at 0, 3000 and 6000 px
C15_Witness ==
    /\ site = "bizinfo" /\ modelCalls = 1
    /\ Len(screenshots) = 3
    /\ Len(llmRequest) = 4
    /\ llmRequest[1].data.y = 0
    /\ llmRequest[2].data.y = 3000
    /\ llmRequest[3].data.y = 6000

\* C18: processBizinfoPage and processKStartupPage never raise to their
\* caller: a failure at any stage, closing the page included, ends in a
\* returned null.
C18_AsStated ==
    cpc = "end" => outcome = "returned"

\* C19: when a viewer frame is found but yields no chunk (no body element,
\* or a failure before the first chunk), processBizinfoPage takes a single
\* whole-page capture of the main content region and submits it.
C19_AsStated ==
    (/\ site = "bizinfo" /\ cpc \in {"extract", "finally", "end"}
     /\ viewerFrame # 0
     /\ ContentElement(dom) # ""
     /\ \A i \in 1..Len(screenshots) : screenshots[i].height = 0)
    => /\ Len(screenshots) = 1
       /\ extractor = "image"
       /\ llmInput.images = screenshots

MaxCrawlCount == 2

\* the source parameter: absent, the two sources, anything else
CrawlSources == {"", "k-startup", "bizinfo", "other"}

\* the usePuppeteer parameter
UsePuppeteerParams == {"absent", "true", "false"}

\* usePuppeteer === 'true', and true by default for source=bizinfo
UsePuppeteerOf(source, param) ==
    param = "true" \/ (source = "bizinfo" /\ param = "absent")

\* a CrawlResult
CrawlResults(source) ==
    {[source |-> source, success |-> ok, count |-> c] : ok \in BOOLEAN, c \in 0..MaxCrawlCount}

LogEntry(event) == [event |-> event, browser |-> browser, closeCalls |-> closeCalls]

\* the query parameters are read
CrawlRequest ==
    /\ rpc = "idle"
    /\ \E source \in CrawlSources, param \in UsePuppeteerParams :
         crawlParams' = [source |-> source, usePuppeteer |-> UsePuppeteerOf(source, param)]
    /\ rpc' = "launch"
    /\ UNCHANGED <<browser, closeCalls, crawlLog, results, crawlError, crawlResponse>>
    /\ UNCHANGED nonCrawlVars

\* if (usePuppeteer) { try { browser = await puppeteer.launch() } catch { log } }
CrawlLaunch ==
    /\ rpc = "launch"
    /\ IF crawlParams.usePuppeteer
       THEN \/ /\ browser' = "open"
               /\ crawlLog' = Append(crawlLog, [LogEntry("launched") EXCEPT !.browser = "open"])
            \/ /\ browser' = "undefined"
               /\ crawlLog' = Append(crawlLog, LogEntry("launch failed"))
       ELSE UNCHANGED <<browser, crawlLog>>
    /\ rpc' = "k-startup"
    /\ UNCHANGED <<crawlParams, closeCalls, results, crawlError, crawlResponse>>
    /\ UNCHANGED nonCrawlVars

\* the source is crawled when no source is named or this one is
CrawlWanted(name) == crawlParams.source = "" \/ crawlParams.source = name

\* results[name] = await crawl(..., browser): a result, or a rejection that
\* leaves the inner try for its finally block
CrawlSource(name, next) ==
    /\ rpc = name
    /\ IF CrawlWanted(name)
       THEN /\ crawlLog' = Append(crawlLog, LogEntry(name))
            /\ \/ /\ \E r \in CrawlResults(name) : results' = Append(results, r)
                  /\ rpc' = next
                  /\ UNCHANGED crawlError
               \/ /\ crawlError' = "crawl failed"
                  /\ rpc' = "finally"
                  /\ UNCHANGED results
       ELSE /\ rpc' = next
            /\ UNCHANGED <<crawlLog, results, crawlError>>
    /\ UNCHANGED <<crawlParams, browser, closeCalls, crawlResponse>>
    /\ UNCHANGED nonCrawlVars

CrawlKStartup == CrawlSource("k-startup", "bizinfo")

CrawlBizinfo == CrawlSource("bizinfo", "finally")

\* the browser is closed only when no crawl has thrown
CloseNeeded_OnSuccess(b, err) == b = "open" /\ err = "none"

\* finally { if (browser) await browser.close() }
CloseNeeded(b, err) == b = "open"

\* the finally block; a rejection of close() goes on to the outer catch
CrawlFinally ==
    /\ rpc = "finally"
    /\ IF CloseNeeded(browser, crawlError)
       THEN /\ closeCalls' = closeCalls + 1
            /\ \/ browser' = "closed" /\ UNCHANGED crawlError
               \/ crawlError' = "close failed" /\ UNCHANGED browser
       ELSE UNCHANGED <<browser, closeCalls, crawlError>>
    /\ rpc' = "respond"
    /\ UNCHANGED <<crawlParams, crawlLog, results, crawlResponse>>
    /\ UNCHANGED nonCrawlVars

RECURSIVE SumCounts(_)
SumCounts(rs) == IF rs = <<>> THEN 0 ELSE Head(rs).count + SumCounts(Tail(rs))

\* the summary response, or the catch's 500 with the error's message
CrawlRespond ==
    /\ rpc = "respond"
    /\ crawlResponse' =
          IF crawlError = "none"
          THEN [status |-> 200,
                success |-> ~(\E k \in 1..Len(results) : ~results[k].success),
                totalCount |-> SumCounts(results),
                error |-> "none"]
          ELSE [status |-> 500, success |-> FALSE, totalCount |-> 0, error |-> crawlError]
    /\ rpc' = "end"
    /\ UNCHANGED <<crawlParams, browser, closeCalls, crawlLog, results, crawlError>>
    /\ UNCHANGED nonCrawlVars

InitCrawl ==
    /\ CaptureIdle /\ RulesIdle /\ MatchIdle /\ PipeIdle /\ ExtractIdle /\ CrawlIdle /\ SearchIdle

CrawlNext ==
    \/ CrawlRequest
    \/ CrawlLaunch
    \/ CrawlKStartup
    \/ CrawlBizinfo
    \/ CrawlFinally
    \/ CrawlRespond

SpecCrawl == InitCrawl /\ [][CrawlNext]_vars

(***************************************************************************)
(* C16, C17: the shared browser                                            *)
(***************************************************************************)
C16_Launched == \E k \in 1..Len(crawlLog) : crawlLog[k].event = "launched"

\* C16: in a crawl invocation that launched the shared browser, close() is
\* called on it exactly once before the response is produced, on every path
\* (both crawls succeed, one reports failure, one throws), and every source
\* crawl is started with the browser open and not yet closed.
C16_ClosedOnce ==
    C16_Launched =>
        /\ closeCalls <= 1
        /\ crawlResponse.status # 0 =>
              /\ closeCalls = 1
              /\ crawlResponse.error # "close failed" => browser = "closed"
        /\ \A k \in 1..Len(crawlLog) :
              crawlLog[k].event \in {"k-startup", "bizinfo"} =>
                  crawlLog[k].browser = "open" /\ crawlLog[k].closeCalls = 0

\* crawlKStartup threw with the browser launched: the browser was closed
\* once, crawlBizinfo was not started, and the response is the 500
C16_Witness ==
    /\ C16_Launched
    /\ crawlResponse.status = 500 /\ crawlResponse.error = "crawl failed"
    /\ Len(crawlLog) = 2 /\ crawlLog[2].event = "k-startup"
    /\ browser = "closed" /\ closeCalls = 1

\* C17: when the browser cannot be launched for a crawl that requires it,
\* no source crawl is started and the response is a single top-level failure
\* (success = false) carrying the launch error's message.
C17_AsStated ==
    (\E k \in 1..Len(crawlLog) : crawlLog[k].event = "launch failed") =>
        /\ \A k \in 1..Len(crawlLog) : crawlLog[k].event \notin {"k-startup", "bizinfo"}
        /\ crawlResponse.status # 0 =>
              (crawlResponse.success = FALSE /\ crawlResponse.error = "launch failed")

(***************************************************************************)
(* C23: the chunk cap                                                      *)
(***************************************************************************)
\* the image parts of the request sent to the model
ImagePartCount ==
    Cardinality({i \in 1..Len(llmRequest) : llmRequest[i].kind = "inlineData"})

\* C23: at every point of a capture loop and after it the screenshots array
\* holds at most MAX_CHUNKS chunks (6 in processBizinfoPage, 5 in
\* processKStartupPage) whatever the height of the document, and a request
\* sent to the model carries at most that many images.
C23_MaxChunks ==
    /\ site = "bizinfo" =>
          /\ Len(screenshots) <= 6
          /\ modelCalls > 0 => ImagePartCount <= 6
    /\ site = "kstartup" =>
          /\ Len(screenshots) <= 5
          /\ modelCalls > 0 => ImagePartCount <= 5

\* a K-Startup viewer of 20200 px: the loop stopped at five chunks with
\* 2500 px of the 10000 px limit left, and the five were sent
C23_Witness ==
    /\ site = "kstartup" /\ bodyHeight = 20200 /\ finalHeight = 10000
    /\ Len(screenshots) = 5 /\ capturedHeight = 7500
    /\ modelCalls = 1 /\ ImagePartCount = 5

(***************************************************************************)
(* C25: the geometry of the Bizinfo chunks                                 *)
(***************************************************************************)
\* the heights of the first k chunks, added up
RECURSIVE HeightSum(_, _)
HeightSum(shots, k) == IF k = 0 THEN 0 ELSE HeightSum(shots, k - 1) + shots[k].height

\* C25: in the Bizinfo capture loop, for every clamped height in
\* [2000, 20000], the first chunk starts at offset 0, chunk k starts where
\* the chunks before it end (the sum of their heights: no gap, no overlap),
\* every chunk is min(3000, remaining height) high and at least 100 px, and
\* the captured total never exceeds the clamped height.
C25_ChunkGeometry ==
    LET clamped == IF bodyHeight < 2000 THEN 2000
                   ELSE IF bodyHeight > 20000 THEN 20000 ELSE bodyHeight
    IN (site = "bizinfo") =>
          /\ clamped \in 2000..20000
          /\ \A k \in 1..Len(screenshots) :
                LET remaining == clamped - HeightSum(screenshots, k - 1) IN
                /\ screenshots[k].y = HeightSum(screenshots, k - 1)
                /\ screenshots[k].height = IF remaining < 3000 THEN remaining ELSE 3000
                /\ screenshots[k].height >= 100
          /\ capturedHeight = HeightSum(screenshots, Len(screenshots))
          /\ capturedHeight <= clamped

\* a viewer of 7000 px: chunks of 3000, 3000 and 1000 px at 0, 3000 and 6000
C25_Witness ==
    /\ site = "bizinfo" /\ cpc = "done" /\ bodyHeight = 7000
    /\ Len(screenshots) = 3
    /\ screenshots[1] = [y |-> 0, height |-> 3000]
    /\ screenshots[2] = [y |-> 3000, height |-> 3000]
    /\ screenshots[3] = [y |-> 6000, height |-> 1000]
    /\ capturedHeight = 7000

(***************************************************************************)
(* C29: a company-age condition that lists several limits                  *)
(***************************************************************************)
\* the limits a list is made of: the single-limit phrases and "1년 미만"
C29_Limits ==
    CompanyAgeLimits \cup {[text |-> <<"1", "H_nyeon", " ", "H_mi", "H_man">>, n |-> 1, inclusive |-> FALSE]}

\* what separates the limits of a list: nothing, or ", "
C29_Separators == {<<>>, <<",", " ">>}

\* the limits ls written one after the other with sep between them
RECURSIVE C29_List(_, _)
C29_List(ls, sep) ==
    IF Len(ls) = 1 THEN ls[1].text
    ELSE ls[1].text \o sep \o C29_List(Tail(ls), sep)

\* C29: for a condition without a sentinel that lists two or three limits
\* ("N년 미만", "N년 이내", "N년 이하"), matchCompanyAge decides by the first
\* limit alone, as it does for the condition cut after that limit: the result
\* is years < N1 or years <= N1 for every years value, whatever the later
\* limits are.
C29_FirstLimitOnly ==
    RuleCalled("matchCompanyAge") =>
        \A n \in 2..3 : \A ls \in [1..n -> C29_Limits] : \A sep \in C29_Separators :
            (condition = C29_List(ls, sep)) =>
                (ruleResult = "true") =
                    (/\ userValue # NaN
                     /\ IF ls[1].inclusive THEN userValue <= ls[1].n ELSE userValue < ls[1].n)

\* "1년 미만, 3년 미만, 7년 미만" called with 2 years is rejected, although
\* 2 years are within the widest limit listed
C29_Witness ==
    /\ RuleCalled("matchCompanyAge")
    /\ condition = <<"1", "H_nyeon", " ", "H_mi", "H_man", ",", " ", "3", "H_nyeon", " ", "H_mi", "H_man", ",", " ", "7", "H_nyeon", " ", "H_mi", "H_man">>
    /\ userValue = 2
    /\ ruleResult = "false"

(***************************************************************************)
(* C28: programs whose stored conditions are all blank                     *)
(***************************************************************************)
\* a condition column that is null or the empty string
C28_Blank(field) == field = Null \/ field = <<>>

\* C28: a stored program whose four condition fields are all null or empty
\* (what the extractor stores after a parse failure) and whose deadline has
\* not passed is in the result of every request, whatever the user profile.
C28_AsStated ==
    Answered =>
        \A k \in DOMAIN db :
            (/\ C28_Blank(db[k].companyAge) /\ C28_Blank(db[k].targetRegion)
             /\ C28_Blank(db[k].targetAge) /\ C28_Blank(db[k].targetIndustry)
             /\ db[k].applicationEnd # NullDate
             /\ db[k].applicationEnd >= request.now)
            => InSeq(db[k], response.data)

(***************************************************************************)
(* C24: the readiness wait of the viewer frame                             *)
(***************************************************************************)
\* C24: when the readiness wait of the viewer frame ends on content that does
\* not meet the condition (every image loaded with a non-zero height and a
\* body text longer than 100 characters), that is on its 20 s time-out,
\* processBizinfoPage raises nothing and returns nothing: it goes on to the
\* height measurement, from where the chunks are captured.
C24_TimeoutProceeds ==
    [][ (/\ site = "bizinfo" /\ cpc = "viewer"
         /\ readiness' # readiness
         /\ ~(/\ \A i \in 1..Len(readiness'.content.images) :
                    /\ readiness'.content.images[i].complete
                    /\ readiness'.content.images[i].naturalHeight > 0
              /\ readiness'.content.textLength > 100))
        => (/\ readiness'.result = "timeout"
            /\ cpc' = "measure"
            /\ outcome' = "running"
            /\ returnValue' = Pending
            /\ screenshots' = screenshots) ]_vars

\* a viewer whose one image never loaded and whose text stayed at 100
\* characters: after the time-out two chunks were captured and the answer of
\* the model was returned
C24_Witness ==
    /\ site = "bizinfo" /\ cpc = "end" /\ outcome = "returned"
    /\ readiness.result = "timeout"
    /\ readiness.content.textLength = 100
    /\ readiness.content.images = <<[complete |-> FALSE, naturalHeight |-> 0]>>
    /\ Len(screenshots) = 2 /\ screenshots[2].y = 3000
    /\ modelCalls = 1
    /\ returnValue.kind = "target"

(***************************************************************************)
(* C22: the attachment control processKStartupPage clicks                  *)
(***************************************************************************)
\* the items of the list that hold a view control
C22_Controls == {i \in 1..Len(attachments) : attachments[i].hasButton}

\* the items whose label contains "공고", "모집" or "안내"
C22_Labelled ==
    {i \in 1..Len(attachments) :
        \/ Includes(attachments[i].label, <<"H_gong", "H_go">>)
        \/ Includes(attachments[i].label, <<"H_mo", "H_jip">>)
        \/ Includes(attachments[i].label, <<"H_an", "H_nae">>)}

\* the control the claim names, as its position among the controls, counted
\* from 0: that of the first labelled item holding a control, the first
\* control (0) when no such item exists
C22_Expected ==
    LET hits == C22_Labelled \cap C22_Controls IN
    IF hits = {} THEN 0
    ELSE LET t == CHOOSE i \in hits : \A j \in hits : i <= j IN
         Cardinality({j \in C22_Controls : j < t})

\* C22: once processKStartupPage has evaluated the attachment list, whenever
\* at least one view control exists exactly one control is clicked, that of
\* the first item whose label contains "공고", "모집" or "안내", the first
\* control when no label matches; the index is -1 (null is returned without
\* a click) only when no control exists.
C22_AsStated ==
    (site = "kstartup" /\ viewButtonSelector # <<>>) =>
        /\ Len(clicked) <= 1
        /\ clicked # <<>> => clicked = viewButtonSelector
        /\ C22_Controls # {} =>
              /\ viewButtonSelector[1] >= 0
              /\ viewButtonSelector[1] = C22_Expected
        /\ C22_Controls = {} =>
              /\ viewButtonSelector[1] = 0 - 1
              /\ clicked = <<>>
              /\ returnValue.kind = "null"

(***************************************************************************)
(* C26, C27: a capture that fails, and the tabs a run leaves behind        *)
(***************************************************************************)
\* the Bizinfo capture loop was left with height still to capture, below
\* the chunk cap and with a slice of 100 px or more remaining: a capture failed
C26_CutShort ==
    /\ capturedHeight < finalHeight
    /\ Len(screenshots) < 6
    /\ finalHeight - capturedHeight >= 100

\* C26: in processBizinfoPage with a viewer frame found, a capture that
\* fails after k >= 1 chunks does not abandon the run: exactly those k
\* chunks, in capture order, are handed to the extractor; with no chunk
\* captured the extractor is never called and the caller gets null.
C26_AsStated ==
    (site = "bizinfo" /\ viewerFrame # 0 /\ cpc \in {"extract", "finally", "end"}) =>
        /\ (Len(screenshots) >= 1 /\ C26_CutShort) =>
              /\ extractor = "image"
              /\ llmInput.images = screenshots
              /\ \A k \in 1..Len(screenshots) : screenshots[k].y = 3000 * (k - 1)
        /\ Len(screenshots) = 0 =>
              /\ extractor = "none" /\ modelCalls = 0
              /\ returnValue.kind = "null"
              /\ cpc = "end" => outcome = "returned"

\* C27: when processBizinfoPage or processKStartupPage has ended, on any
\* path, no page it opened is still open: neither its own page nor the
\* viewer page opened by the click.
C27_AsStated ==
    cpc = "end" => (page # "open" /\ viewerPage # "open")

(***************************************************************************)
(* Termination: a renderer or a model that never answers                   *)
(***************************************************************************)
\* getGenerativeModel(..., { timeout: 300000 }) in vision mode; the text
\* mode passes no request options
VISION_TIMEOUT == 300000

\* the timeout of the generateContent request, 0 when none is set
RequestTimeout(mode) == IF mode = "image" THEN VISION_TIMEOUT ELSE 0

\* the timer of the request fires before the model has answered: the call
\* is aborted and the catch returns null
ModelDeadline ==
    /\ epc = "awaiting"
    /\ RequestTimeout(extractor) > 0
    /\ llmReply' = [kind |-> "deadline", text |-> <<>>]
    /\ extractResult' = ReturnsNull
    /\ epc' = "returned"
    /\ UNCHANGED <<apiKey, extractor, llmInput, llmRequest, modelCalls, nonExtractVars>>

\* an extractor called on its own, not from a page pipeline
DirectCalls ==
    {[extractor |-> "text", llmInput |-> input] : input \in TextInputs}
    \cup {[extractor |-> "image",
           llmInput |-> [isArray |-> TRUE, images |-> <<c>>, mimeType |-> "image/jpeg"]] :
             c \in SampleChunks}

\* a page pipeline about to run, or an extractor just called
InitLive ==
    /\ RulesIdle /\ MatchIdle /\ PipeIdle /\ CrawlIdle /\ SearchIdle
    /\ cpc = "idle"
    /\ bodyHeight = 0 /\ finalHeight = 0 /\ capturedHeight = 0
    /\ screenshots = <<>>
    /\ apiKey \in BOOLEAN
    /\ llmRequest = <<>>
    /\ modelCalls = 0
    /\ llmReply = NoReply
    /\ extractResult = Pending
    /\ \/ site = "none" /\ extractor = "none" /\ epc = "idle" /\ llmInput = <<>>
       \/ /\ site = "direct"
          /\ epc = "called"
          /\ \E call \in DirectCalls :
                extractor = call.extractor /\ llmInput = call.llmInput

\* the steps the program takes by itself: each awaited renderer call settles
\* or runs into its timeout, each timer fires
ProgramNext ==
    \/ BizNewPage
    \/ BizGoto
    \/ BizScanPoll
    \/ BizScanDeadline
    \/ BizViewerWait
    \/ BizViewerPrepare
    \/ BizCaptureChunk
    \/ BizCaptureFail
    \/ BizLoopExit
    \/ BizFallback
    \/ BizFinally
    \/ KsNewPage
    \/ KsGoto
    \/ KsFileList
    \/ KsLocate
    \/ KsClickViewer
    \/ KsOpenViewer
    \/ KsViewerMeasure
    \/ KsCaptureChunk
    \/ KsCaptureFail
    \/ KsLoopExit
    \/ KsSubmit
    \/ KsFinally
    \/ ExtractImageBegin
    \/ ExtractTextBegin
    \/ PipelineReturn
    \/ ModelDeadline

\* the model service may answer, fail, or never do either
LiveNext ==
    \/ ProgramNext
    \/ ModelReplies
    \/ ModelFails

SpecLive == InitLive /\ [][LiveNext]_vars /\ WF_vars(ProgramNext)

\* the call has handed control back to its caller
C21_Returned == IF site = "direct" THEN epc = "returned" ELSE cpc = "end"

\* C21: every page pipeline run and every extractor call, in vision mode and
\* in text mode, eventually returns, even when the renderer or the model
\* never answers: each wait is cut off by a deadline of its own.
C21_AsStated == <>C21_Returned

(***************************************************************************)
(* The search page: fetchResults and updateUrlParams                       *)
(***************************************************************************)
MaxFetches == 3

\* the region select: <<"H_seo", "H_ul">>, <<"H_bu", "H_san">>, "" (not chosen)
SearchRegions == {<<"H_seo", "H_ul">>, <<"H_bu", "H_san">>, <<>>}

\* the open programs of the table the page queries: one for <<"H_seo", "H_ul">> and
\* one without conditions
SearchTable ==
    <<[id |-> 1, applicationEnd |-> FirstNow,
       companyAge |-> Null, targetRegion |-> <<"H_seo", "H_ul">>,
       targetAge |-> Null, targetIndustry |-> <<>>],
      [id |-> 2, applicationEnd |-> FirstNow,
       companyAge |-> BlankConditions.companyAge, targetRegion |-> BlankConditions.targetRegion,
       targetAge |-> BlankConditions.targetAge, targetIndustry |-> BlankConditions.targetIndustry]>>

\* `if (region) params.set('region', region)`: a blank region is left out
SearchRequest(region) ==
    [now |-> FirstNow, foundingYear |-> Null,
     region |-> IF region = <<>> THEN Null ELSE region,
     birthMonth |-> Null, industry |-> Null]

\* the body of the response of GET /api/match to the parameters of the page
MatchResult(region) ==
    LET Kept(p) == FilterOutcome(p, SearchRequest(region)) = "keep"
    IN [success |-> TRUE, data |-> SelectSeq(SearchTable, Kept)]

InFlight(k) == k \in DOMAIN fetches /\ fetches[k].state = "pending"

\* the effect on [searchParams, fetchResults]: fetchResults(searchParams)
\* up to its await
FetchResults(params) ==
    /\ fetches' = Append(fetches, [params |-> params, state |-> "pending"])
    /\ loading' = TRUE

\* the page after its first render: the form holds the region of the URL,
\* both effects have run
InitSearch ==
    /\ CaptureIdle /\ RulesIdle /\ MatchIdle /\ PipeIdle /\ ExtractIdle /\ CrawlIdle
    /\ searchParams \in SearchRegions
    /\ formRegion = searchParams
    /\ debounceTimer = <<formRegion>>
    /\ fetches = <<[params |-> searchParams, state |-> "pending"]>>
    /\ searchResults = <<>>
    /\ loading = TRUE

\* setRegion: the render that follows gives updateUrlParams a new identity,
\* its effect clears the pending timer and sets one with the new region
SetRegion ==
    /\ fetches # <<>>
    /\ \E value \in SearchRegions \ {formRegion} :
          /\ formRegion' = value
          /\ debounceTimer' = <<value>>
    /\ UNCHANGED <<searchParams, fetches, searchResults, loading, nonSearchVars>>

\* the timer fires after 500 ms: router.replace; a URL that changed gives a
\* new searchParams and the effect calls fetchResults
DebounceFires ==
    /\ debounceTimer # <<>>
    /\ LET params == debounceTimer[1] IN
          /\ params = searchParams \/ Len(fetches) < MaxFetches
          /\ searchParams' = params
          /\ IF params # searchParams
             THEN FetchResults(params)
             ELSE UNCHANGED <<fetches, loading>>
    /\ debounceTimer' = <<>>
    /\ UNCHANGED <<formRegion, searchResults, nonSearchVars>>

\* the response to one of the calls in flight arrives:
\* `if (data.success) setResults(data.data)`, finally `setLoading(false)`
FetchResolves ==
    \E k \in DOMAIN fetches :
        /\ InFlight(k)
        /\ \E data \in {MatchResult(fetches[k].params)} :
              /\ searchResults' = IF data.success THEN data.data ELSE searchResults
              /\ fetches' = [fetches EXCEPT ![k].state =
                                IF data.success THEN "applied" ELSE "failed"]
        /\ loading' = FALSE
        /\ UNCHANGED <<formRegion, debounceTimer, searchParams, nonSearchVars>>

\* fetch or response.json() rejects: the catch logs, finally `setLoading(false)`
FetchRejects ==
    \E k \in DOMAIN fetches :
        /\ InFlight(k)
        /\ fetches' = [fetches EXCEPT ![k].state = "failed"]
        /\ loading' = FALSE
        /\ UNCHANGED <<formRegion, debounceTimer, searchParams, searchResults, nonSearchVars>>

SearchNext ==
    \/ SetRegion
    \/ DebounceFires
    \/ FetchResolves
    \/ FetchRejects

SpecSearch == InitSearch /\ [][SearchNext]_vars

\* every call has settled, no URL change is pending, and the response to the
\* latest call was applied
C30_Settled ==
    /\ fetches # <<>>
    /\ \A k \in DOMAIN fetches : ~InFlight(k)
    /\ debounceTimer = <<>>
    /\ fetches[Len(fetches)].state = "applied"

\* C30: when the search parameters change while an earlier /api/match request
\* is in flight, the list finally displayed is the response to the most recent
\* parameters, whatever the order in which the responses arrive.
C30_AsStated == C30_Settled => searchResults = MatchResult(searchParams).data

====
